---- MODULE Spec2Model ----
(***************************************************************************)
(* Model of the transcript aggregation of ENSGrading (src/main.py):        *)
(* convert_grade_to_letter_and_gpa, create_grades_table and the part of    *)
(* create_pdf_from_formatted_texts that loads the grade table, builds the  *)
(* table and appends the compensation footnote.                            *)
(*                                                                         *)
(* Numbers.  A grade out of 20 is kept as an integer number of 1/GradeScale*)
(* points (grade 9.5 is 19 when GradeScale = 2), so the grades of the      *)
(* model are exactly representable binary floats and sums and comparisons  *)
(* of them are exact.  A quotient is kept as the pair <<num, den>>.  GPA   *)
(* points are kept in hundredths (float("3.33") is 333).                   *)
(***************************************************************************)
EXTENDS Integers, Sequences, FiniteSets, TLC

VARIABLES
    grades_file,   \* content of config/grades.json: the ordered course -> info mapping
    grades_data,   \* the dict returned by load_grades_data
    table_data,    \* first component returned by create_grades_table
    passed_all,    \* second component returned by create_grades_table
    outcome,       \* how the call of create_grades_table ended
    story,         \* what create_pdf_from_formatted_texts appended for the grades
    pc,            \* position inside the try block of create_pdf_from_formatted_texts
    grade_20,      \* argument of a direct call of convert_grade_to_letter_and_gpa
    converted,     \* the pair that call returned
    data,          \* read_grades: the lines extracted from the PDF
    certified,     \* read_grades: the layout flag
    profile,       \* read_grades: name, surname, academic_year, birth_date, birth_location
    master,        \* read_grades: the MASTER 1 marker was found in data[8]
    pos,           \* read_grades: index in data of the next line of the for loop
    grades,        \* read_grades: the dict course -> record, in insertion order
    gained_credits, \* read_grades: the local variable of that name
    took,          \* read_grades: the branch the last iteration of the for loop took
    result,        \* what read_grades returned
    exc,           \* the exception that left grades.py, "none" if none did
    saved          \* what grades.py wrote to config/grades.json

agg_vars == <<grades_file, grades_data, table_data, passed_all, outcome, story,
              grade_20, converted>>

parser_vars == <<data, certified, profile, master, pos, grades, gained_credits,
                 took, result, exc, saved>>

VARIABLES
    written,       \* the decimal a grade token is written from, or no decimal
    token,         \* the text of a grade token of a bulletin line
    applied,       \* the conversion of read_grades applied to the token
    parsed         \* what the conversion gave: a float or an exception
token_vars == <<written, token, applied, parsed>>

VARIABLES
    table_given,   \* the grades handed to validate_grades_data
    table_after,   \* the same object once validate_grades_data has returned
    validation     \* the pair (is_valid, errors) validate_grades_data returned
validator_vars == <<table_given, table_after, validation>>

VARIABLES
    request,       \* the POST: its two headers, the fields of its form and the author YAML
    students,      \* what the Excel file holds: per student the grades and what fails for them
    student_index, \* number of students the for loop of the batch has taken
    zip_file,      \* the entries written to the ZIP, in order
    student_names, \* the list of that name
    successful_count, \* the counter of that name
    batch_result,  \* how generate_batch_transcripts_from_data ended
    single_result, \* how generate_single_transcript_from_data ended
    responses      \* the HTTP responses do_POST has sent, in order
batch_vars == <<request, students, student_index, zip_file, student_names,
                successful_count, batch_result, single_result, responses>>

VARIABLES
    config_grades_json, \* the file config/grades.json of the working directory
    runs           \* per run of the two programs: its position, its bulletin, the
                   \* grades read_grades returned and the grades main.py loaded
runs_vars == <<config_grades_json, runs>>

more_vars == <<token_vars, validator_vars, batch_vars, runs_vars>>

NotWritten == [kind |-> "none", units |-> 0, frac |-> <<>>]
NotParsed == [exc |-> "none", v |-> [num |-> 0, exp |-> 0]]

NotValidated == [is_valid |-> TRUE, errors |-> <<>>]

TokenIdle ==
    /\ written = NotWritten
    /\ token = <<>>
    /\ applied = "none"
    /\ parsed = NotParsed

ValidatorIdle ==
    /\ table_given = <<>>
    /\ table_after = <<>>
    /\ validation = NotValidated

NoRequest ==
    [content_type |-> <<>>, content_length |-> [kind |-> "None", v |-> 0], fields |-> {},
     yaml |-> "none", excel |-> "workbook"]
NotEnded == [kind |-> "none", values |-> <<>>]

BatchIdle ==
    /\ request = NoRequest
    /\ students = <<>>
    /\ student_index = 0
    /\ zip_file = <<>>
    /\ student_names = <<>>
    /\ successful_count = 0
    /\ batch_result = NotEnded
    /\ single_result = NotEnded
    /\ responses = <<>>

NoGradesFile == [kind |-> "none", grades |-> <<>>]

RunsIdle ==
    /\ config_grades_json = NoGradesFile
    /\ runs = <<>>

\* nothing outside the aggregator and read_grades has run
MoreIdle ==
    /\ TokenIdle
    /\ ValidatorIdle
    /\ BatchIdle
    /\ RunsIdle

vars == <<agg_vars, parser_vars, more_vars, pc>>

(***************************************************************************)
(* Bounds                                                                  *)
(***************************************************************************)
GradeScale == 2      \* grade units per grade point
MaxCourses == 2      \* courses in a bounded grade table
MaxCredits == 2      \* largest credit count in a bounded grade table
MinPoints == 5       \* direct conversions cover grades from -MinPoints ...
MaxPoints == 25      \* ... up to MaxPoints grade points

\* Python's None (a value outside every numeric domain of the model)
None == -1000000

Pts(p) == p * GradeScale

(***************************************************************************)
(* convert_grade_to_letter_and_gpa                                         *)
(***************************************************************************)
\* The if/elif chain applied to the number num/den (den > 0): the test
\* grade_20 >= t is num >= t * den.
LetterAndGpaMisordered(num, den) ==
    IF num = None THEN <<"N/A", "N/A">>
    ELSE IF num >= 16 * den THEN <<"A+", "4.33">>
    ELSE IF num >= 14 * den THEN <<"A", "4.0">>
    ELSE IF num >= 13 * den THEN <<"A-", "3.67">>
    ELSE IF num >= 12 * den THEN <<"B+", "3.33">>
    ELSE IF num >= 11 * den THEN <<"B", "3.0">>
    ELSE IF num >= 10 * den THEN <<"B-", "2.67">>
    ELSE IF num >= 9 * den THEN <<"C+", "2.0">>
    ELSE IF num >= 8 * den THEN <<"C", "2.33">>
    ELSE IF num >= 7 * den THEN <<"C-", "1.67">>
    ELSE <<"F", "0.0">>

LetterAndGpaStrictTop(num, den) ==
    IF num = None THEN <<"N/A", "N/A">>
    ELSE IF num > 16 * den THEN <<"A+", "4.33">>
    ELSE IF num >= 14 * den THEN <<"A", "4.0">>
    ELSE IF num >= 13 * den THEN <<"A-", "3.67">>
    ELSE IF num >= 12 * den THEN <<"B+", "3.33">>
    ELSE IF num >= 11 * den THEN <<"B", "3.0">>
    ELSE IF num >= 10 * den THEN <<"B-", "2.67">>
    ELSE IF num >= 9 * den THEN <<"C+", "2.33">>
    ELSE IF num >= 8 * den THEN <<"C", "2.0">>
    ELSE IF num >= 7 * den THEN <<"C-", "1.67">>
    ELSE <<"F", "0.0">>

LetterAndGpa(num, den) ==
    IF num = None THEN <<"N/A", "N/A">>
    ELSE IF num >= 16 * den THEN <<"A+", "4.33">>
    ELSE IF num >= 14 * den THEN <<"A", "4.0">>
    ELSE IF num >= 13 * den THEN <<"A-", "3.67">>
    ELSE IF num >= 12 * den THEN <<"B+", "3.33">>
    ELSE IF num >= 11 * den THEN <<"B", "3.0">>
    ELSE IF num >= 10 * den THEN <<"B-", "2.67">>
    ELSE IF num >= 9 * den THEN <<"C+", "2.33">>
    ELSE IF num >= 8 * den THEN <<"C", "2.0">>
    ELSE IF num >= 7 * den THEN <<"C-", "1.67">>
    ELSE <<"F", "0.0">>

\* called with a grade kept in grade units
convert_grade_to_letter_and_gpa(g) == LetterAndGpa(g, GradeScale)

\* float(gpa) for the strings the conversion returns, in hundredths
FloatOfGpa(gpa) ==
    CASE gpa = "4.33" -> 433
      [] gpa = "4.0"  -> 400
      [] gpa = "3.67" -> 367
      [] gpa = "3.33" -> 333
      [] gpa = "3.0"  -> 300
      [] gpa = "2.67" -> 267
      [] gpa = "2.33" -> 233
      [] gpa = "2.0"  -> 200
      [] gpa = "1.67" -> 167
      [] gpa = "0.0"  -> 0

(***************************************************************************)
(* Python arithmetic and formatting                                        *)
(***************************************************************************)
\* a / b : raises ZeroDivisionError when b = 0
PyDiv(a, b) == IF b = 0 THEN [err |-> TRUE, num |-> 0, den |-> 1]
               ELSE [err |-> FALSE, num |-> a, den |-> b]

Zero == [err |-> FALSE, num |-> 0, den |-> 1]

\* f'{x:.2f}' of x = num / (unit * den), in hundredths, for a float that holds
\* x exactly: round to nearest, ties to even
Format2f(num, den, unit) ==
    LET n == 100 * num
        d == unit * den
        q == n \div d
        r == n % d
    IN  IF 2 * r > d THEN q + 1
        ELSE IF 2 * r < d THEN q
        ELSE IF q % 2 = 0 THEN q ELSE q + 1

\* f'{x:.2f}' of a cumulative GPA x = num / (100 * den), in hundredths.  The
\* float operands (4.33, 3.67, ...) are not exact, so when num/den lies
\* halfway between two hundredths the digit printed depends on the rounding
\* errors of the float sum: both neighbours are possible outcomes.
Format2fGpa(num, den) ==
    LET q == num \div den
        r == num % den
    IN  IF 2 * r > den THEN {q + 1}
        ELSE IF 2 * r < den THEN {q}
        ELSE {q, q + 1}

(***************************************************************************)
(* create_grades_table                                                     *)
(* grades_data is the dict in insertion order: a sequence of               *)
(* <<course_title, course_info>>, course_info = <<grade, creditsEarned,    *)
(* creditsMax>> (course_info[0], [1], [2] of the source).                  *)
(***************************************************************************)
HeaderRow == <<"Course Title", "Credits\nAwarded", "Grade out\nof 20", "Letter\nGrade", "GPA">>

\* the accumulators before the first course (lines 407-417)
LoopStartKeepingRows ==
    [raised |-> "no",
     rows |-> IF table_data = <<>> THEN <<HeaderRow>> ELSE table_data,
     passed_all |-> TRUE,
     total_grade_points |-> 0, actual_credits_earned |-> 0,
     total_grade_sum |-> 0, total_courses |-> 0, total_max_credits |-> 0]

LoopStart ==
    [raised |-> "no", rows |-> <<HeaderRow>>, passed_all |-> TRUE,
     total_grade_points |-> 0, actual_credits_earned |-> 0,
     total_grade_sum |-> 0, total_courses |-> 0, total_max_credits |-> 0]

\* credits_obtained of one course (lines 425-429)
CreditsObtainedFromRecord(course_info) ==
    IF course_info[1] < Pts(10) THEN 0 ELSE course_info[2]

CreditsObtainedAlwaysMax(course_info) == course_info[3]

CreditsObtainedAtTen(course_info) ==
    IF course_info[1] <= Pts(10) THEN 0 ELSE course_info[3]

CreditsObtained(course_info) ==
    IF course_info[1] < Pts(10) THEN 0 ELSE course_info[3]

\* passed_all after one course (lines 425-427)
PassedAfterIgnoringFailure(passed, grade) == passed

PassedAfter(passed, grade) == IF grade < Pts(10) THEN FALSE ELSE passed

\* total_grade_sum after one course (line 448)
GradeSumWeighted(total_grade_sum, grade, max_credits) == total_grade_sum + grade * max_credits

GradeSumAfter(total_grade_sum, grade, max_credits) == total_grade_sum + grade

\* f"{credits_obtained}/{max_credits}", followed by " *" when the grade is
\* below 10 (lines 432-434), kept as its three parts
CreditsDisplay(credits_obtained, max_credits, grade) ==
    [obtained |-> credits_obtained, max |-> max_credits, star |-> grade < Pts(10)]

\* str(grade) if grade is not None else "N/A" (line 438)
GradeDisplay(grade) ==
    IF grade # None THEN [text |-> "number", value |-> grade]
    ELSE [text |-> "N/A", value |-> 0]

\* the body of the first loop for one course (lines 421-458); grade < 10
\* raises TypeError when the grade is None
CourseStep(acc, course) ==
    LET course_title == course[1]
        course_info == course[2]
        grade == course_info[1]
        max_credits == course_info[3]
    IN  IF acc.raised # "no" THEN acc
        ELSE IF grade = None THEN [acc EXCEPT !.raised = "TypeError"]
        ELSE
          LET credits_obtained == CreditsObtained(course_info)
              lg == convert_grade_to_letter_and_gpa(grade)
              counts == grade # None /\ credits_obtained > 0 /\ lg[2] # "N/A"
          IN  [raised |-> "no",
               rows |-> Append(acc.rows,
                          <<course_title,
                            CreditsDisplay(credits_obtained, max_credits, grade),
                            GradeDisplay(grade), lg[1], lg[2]>>),
               passed_all |-> PassedAfter(acc.passed_all, grade),
               total_grade_points |->
                   IF counts THEN acc.total_grade_points + FloatOfGpa(lg[2]) * credits_obtained
                   ELSE acc.total_grade_points,
               actual_credits_earned |->
                   IF counts THEN acc.actual_credits_earned + credits_obtained
                   ELSE acc.actual_credits_earned,
               total_grade_sum |-> GradeSumAfter(acc.total_grade_sum, grade, max_credits),
               total_courses |-> acc.total_courses + 1,
               total_max_credits |-> acc.total_max_credits + max_credits]

\* the first loop over grades_data.items() (line 420), courses 1..i
RECURSIVE CourseLoop(_, _)
CourseLoop(gd, i) ==
    IF i = 0 THEN LoopStart ELSE CourseStep(CourseLoop(gd, i - 1), gd[i])

\* total_grade_points_compensation after courses 1..i (lines 468-475)
RECURSIVE CompensationPoints(_, _)
CompensationPoints(gd, i) ==
    IF i = 0 THEN 0
    ELSE LET grade == gd[i][2][1]
             max_credits == gd[i][2][3]
             gpa == convert_grade_to_letter_and_gpa(grade)[2]
         IN  CompensationPoints(gd, i - 1)
               + (IF grade # None /\ gpa # "N/A" THEN FloatOfGpa(gpa) * max_credits ELSE 0)

\* average_grade (line 461), a quotient of grade units by courses
AverageGrade(total_grade_sum, total_courses) ==
    IF total_courses > 0 THEN PyDiv(total_grade_sum, total_courses) ELSE Zero

\* average_grade > 10 (line 464), for average_grade = avg.num / (GradeScale * avg.den)
CompensationAtTen(avg) == avg.num >= Pts(10) * avg.den

UseCompensation(avg) == avg.num > Pts(10) * avg.den

\* credits_for_totals (lines 466 and 479)
CreditsForTotalsEarnedOnly(compensation, acc) == acc.actual_credits_earned

CreditsForTotals(compensation, acc) ==
    IF compensation THEN acc.total_max_credits ELSE acc.actual_credits_earned

\* cumulative_gpa_value (lines 476 and 480), a quotient of hundredths of GPA
\* points by credits
CumulativeGpaUnguarded(compensation, acc, gd) ==
    IF compensation
    THEN PyDiv(CompensationPoints(gd, Len(gd)), acc.total_max_credits)
    ELSE PyDiv(acc.total_grade_points, acc.actual_credits_earned)

CumulativeGpa(compensation, acc, gd) ==
    IF compensation
    THEN IF acc.total_max_credits > 0
         THEN PyDiv(CompensationPoints(gd, Len(gd)), acc.total_max_credits)
         ELSE Zero
    ELSE IF acc.actual_credits_earned > 0
         THEN PyDiv(acc.total_grade_points, acc.actual_credits_earned)
         ELSE Zero

\* the summary row (lines 483-489)
SummaryRow(credits_for_totals, avg, cumulative_gpa_value) ==
    <<"TOTALS",
      credits_for_totals,
      Format2f(avg.num, avg.den, GradeScale),
      LetterAndGpa(avg.num, GradeScale * avg.den)[1],
      Format2fGpa(cumulative_gpa_value.num, cumulative_gpa_value.den)>>

\* grades_data after the call: lines 401-492 assign neither to grades_data nor
\* to a course_info
GradesDataWithObtained(gd) ==
    [i \in 1..Len(gd) |->
        <<gd[i][1],
          <<gd[i][2][1],
            IF gd[i][2][1] # None /\ gd[i][2][1] < Pts(10) THEN 0 ELSE gd[i][2][3],
            gd[i][2][3]>>>>]

GradesDataAfter(gd) == gd

\* what a call create_grades_table(gd) does: it returns (table_data,
\* passed_all), or an exception leaves it
NoTable == <<>>

create_grades_table(gd) ==
    LET acc == CourseLoop(gd, Len(gd))
        avg == AverageGrade(acc.total_grade_sum, acc.total_courses)
        compensation == UseCompensation(avg)
        gpa == CumulativeGpa(compensation, acc, gd)
    IN  IF acc.raised # "no"
        THEN [outcome |-> acc.raised, table_data |-> NoTable, passed_all |-> TRUE]
        ELSE IF avg.err \/ gpa.err
        THEN [outcome |-> "ZeroDivisionError", table_data |-> NoTable, passed_all |-> TRUE]
        ELSE [outcome |-> "returned",
              table_data |-> Append(acc.rows,
                                SummaryRow(CreditsForTotals(compensation, acc), avg, gpa)),
              passed_all |-> acc.passed_all]

(***************************************************************************)
(* Values of the variables of read_grades (src/grades.py)                  *)
(***************************************************************************)
\* a local variable that was never assigned
Unbound == [kind |-> "unbound", v |-> 0]

\* a variable holding None, and one holding the value x
NoneValue == [kind |-> "None", v |-> 0]
Value(x) == [kind |-> "value", v |-> x]

\* the five profile variables before anything was assigned
NoProfile ==
    [name |-> Unbound, surname |-> Unbound, academic_year |-> Unbound,
     birth_date |-> Unbound, birth_location |-> Unbound]

\* read_grades has not returned; it returned None
NoResult == [kind |-> "none"]
ReturnedNone == [kind |-> "None"]

\* nothing was written to config/grades.json
NotSaved == [kind |-> "none"]

(***************************************************************************)
(* Inputs                                                                  *)
(***************************************************************************)
CourseTitles == <<"Algebra", "History", "Physics", "Chemistry", "Biology">>

\* grades of the bounded tables: absent, failed, exactly 10, passed
TableGrades == {None, Pts(9), Pts(10), Pts(11), Pts(12)}

\* creditsEarned is 0 or the largest credit count, whatever creditsMax is
CourseInfos == TableGrades \X {0, MaxCredits} \X (0..MaxCredits)

TableOf(infos) == [i \in 1..Len(infos) |-> <<CourseTitles[i], infos[i]>>]

\* the two tables of the documented scenarios
ScenarioA == <<<<"Algebra", <<Pts(12), 6, 6>>>>, <<"History", <<Pts(8), 0, 6>>>>>>
ScenarioB == <<<<"Algebra", <<Pts(12), 6, 6>>>>, <<"History", <<Pts(11), 6, 6>>>>>>

\* arguments of the direct conversions
ConvertInputs == {None} \cup (Pts(0 - MinPoints)..Pts(MaxPoints))

(***************************************************************************)
(* The grades part of create_pdf_from_formatted_texts (lines 250-309)      *)
(***************************************************************************)
Init ==
    /\ \/ \E n \in 0..MaxCourses : \E infos \in [1..n -> CourseInfos] :
             grades_file = TableOf(infos)
       \/ grades_file \in {ScenarioA, ScenarioB}
    /\ grades_data = <<>>
    /\ table_data = NoTable
    /\ passed_all = TRUE
    /\ outcome = "none"
    /\ story = <<>>
    /\ pc = "start"
    /\ grade_20 = None
    /\ converted = <<>>
    /\ data = <<>>
    /\ certified = TRUE
    /\ profile = NoProfile
    /\ master = FALSE
    /\ pos = 0
    /\ grades = <<>>
    /\ gained_credits = Unbound
    /\ took = "none"
    /\ result = NoResult
    /\ exc = "none"
    /\ saved = NotSaved
    /\ MoreIdle

\* grades_data = load_grades_data(grades_file_path)
LoadGradesData ==
    /\ pc = "start"
    /\ grades_data' = grades_file
    /\ pc' = "loaded"
    /\ UNCHANGED <<grades_file, table_data, passed_all, outcome, story, grade_20, converted, parser_vars, more_vars>>

\* table_data, passed_all = create_grades_table(grades_data)
CreateGradesTable ==
    /\ pc = "loaded"
    /\ LET r == create_grades_table(grades_data)
       IN  /\ outcome' = r.outcome
           /\ table_data' = r.table_data
           /\ passed_all' = r.passed_all
           /\ pc' = IF r.outcome = "returned" THEN "table" ELSE "except"
    /\ grades_data' = GradesDataAfter(grades_data)
    /\ UNCHANGED <<grades_file, story, grade_20, converted, parser_vars, more_vars>>

\* if not passed_all (line 303)
NoteAdded(passed) == ~passed

\* story.append(grades_table) and, if not passed_all, the spacer and the note
AppendGradesTable ==
    /\ pc = "table"
    /\ story' = IF NoteAdded(passed_all)
                THEN story \o <<"grades_table", "spacer", "note">>
                ELSE story \o <<"grades_table">>
    /\ pc' = "done"
    /\ UNCHANGED <<grades_file, grades_data, table_data, passed_all, outcome, grade_20, converted, parser_vars, more_vars>>

\* except Exception as e: print a warning (lines 308-309)
ExceptWarning ==
    /\ pc = "except"
    /\ pc' = "done"
    /\ UNCHANGED <<grades_file, grades_data, table_data, passed_all, outcome, story, grade_20, converted, parser_vars, more_vars>>

\* the document is assembled a second time from the unchanged grades:
\* create_grades_table is called again with the same dict (line 253)
CreateGradesTableAgain ==
    /\ pc = "done"
    /\ LET r == create_grades_table(grades_data)
       IN  /\ outcome' = r.outcome
           /\ table_data' = r.table_data
           /\ passed_all' = r.passed_all
    /\ grades_data' = GradesDataAfter(grades_data)
    /\ pc' = "again"
    /\ UNCHANGED <<grades_file, story, grade_20, converted, parser_vars, more_vars>>

Next ==
    \/ LoadGradesData
    \/ CreateGradesTable
    \/ AppendGradesTable
    \/ ExceptWarning
    \/ CreateGradesTableAgain

Spec == Init /\ [][Next]_vars

(***************************************************************************)
(* Direct calls of convert_grade_to_letter_and_gpa                         *)
(***************************************************************************)
InitConvert ==
    /\ grades_file = <<>>
    /\ grades_data = <<>>
    /\ table_data = NoTable
    /\ passed_all = TRUE
    /\ outcome = "none"
    /\ story = <<>>
    /\ pc = "convert"
    /\ grade_20 \in ConvertInputs
    /\ converted = <<>>
    /\ data = <<>>
    /\ certified = TRUE
    /\ profile = NoProfile
    /\ master = FALSE
    /\ pos = 0
    /\ grades = <<>>
    /\ gained_credits = Unbound
    /\ took = "none"
    /\ result = NoResult
    /\ exc = "none"
    /\ saved = NotSaved
    /\ MoreIdle

ConvertGrade ==
    /\ pc = "convert"
    /\ converted' = convert_grade_to_letter_and_gpa(grade_20)
    /\ pc' = "converted"
    /\ UNCHANGED <<grades_file, grades_data, table_data, passed_all, outcome, story, grade_20, parser_vars, more_vars>>

NextConvert == ConvertGrade

SpecConvert == InitConvert /\ [][NextConvert]_vars

(***************************************************************************)
(* Python strings.  A str is the sequence of its characters; positions are *)
(* counted from 0 as in the source, and negative positions count from the  *)
(* end.                                                                    *)
(***************************************************************************)
Digits == {"0", "1", "2", "3", "4", "5", "6", "7", "8", "9"}

DigitValue(c) ==
    CASE c = "0" -> 0 [] c = "1" -> 1 [] c = "2" -> 2 [] c = "3" -> 3 [] c = "4" -> 4
      [] c = "5" -> 5 [] c = "6" -> 6 [] c = "7" -> 7 [] c = "8" -> 8 [] c = "9" -> 9

\* the characters of the class [A-Za-z]
Letters ==
    {"A", "B", "C", "D", "E", "F", "G", "H", "I", "J", "K", "L", "M", "N", "O", "P", "Q",
     "R", "S", "T", "U", "V", "W", "X", "Y", "Z",
     "a", "b", "c", "d", "e", "f", "g", "h", "i", "j", "k", "l", "m", "n", "o", "p", "q",
     "r", "s", "t", "u", "v", "w", "x", "y", "z"}

Smallest(S) == CHOOSE x \in S : \A y \in S : x <= y
Largest(S) == CHOOSE x \in S : \A y \in S : x >= y

\* a slice bound i brought into 0..n
Clamp(n, i) ==
    IF i < 0 THEN (IF i + n < 0 THEN 0 ELSE i + n)
    ELSE IF i > n THEN n ELSE i

\* s[a:b], s[a:] and s[:b]
Slice(s, a, b) == SubSeq(s, Clamp(Len(s), a) + 1, Clamp(Len(s), b))
SliceFrom(s, a) == Slice(s, a, Len(s))
SliceTo(s, b) == Slice(s, 0, b)

\* s[i] is defined (no IndexError), and its value
HasItem(s, i) == (0 - Len(s)) <= i /\ i < Len(s)
Item(s, i) == IF i < 0 THEN s[i + Len(s) + 1] ELSE s[i + 1]

\* sub occurs in s at position k
OccursAt(s, sub, k) ==
    /\ k >= 0
    /\ k + Len(sub) <= Len(s)
    /\ SubSeq(s, k + 1, k + Len(sub)) = sub

\* s.find(sub, lo, hi) and s.rfind(sub, lo, hi): -1 when sub is not found
Occurrences(s, sub, lo, hi) ==
    {k \in Clamp(Len(s), lo)..(Clamp(Len(s), hi) - Len(sub)) : OccursAt(s, sub, k)}

Find(s, sub, lo, hi) ==
    IF Occurrences(s, sub, lo, hi) = {} THEN 0 - 1 ELSE Smallest(Occurrences(s, sub, lo, hi))

RFind(s, sub, lo, hi) ==
    IF Occurrences(s, sub, lo, hi) = {} THEN 0 - 1 ELSE Largest(Occurrences(s, sub, lo, hi))

StartsWith(s, prefix) == OccursAt(s, prefix, 0)
EndsWith(s, suffix) == OccursAt(s, suffix, Len(s) - Len(suffix))
Contains(s, sub) == Find(s, sub, 0, Len(s)) # 0 - 1

\* s.split(sep), the list of the pieces
RECURSIVE Split(_, _)
Split(s, sep) ==
    LET k == Find(s, sep, 0, Len(s))
    IN  IF k = 0 - 1 THEN <<s>>
        ELSE <<SliceTo(s, k)>> \o Split(SliceFrom(s, k + Len(sep)), sep)

\* s.strip()
RECURSIVE Strip(_)
Strip(s) ==
    IF s = <<>> THEN s
    ELSE IF s[1] = " " THEN Strip(Tail(s))
    ELSE IF s[Len(s)] = " " THEN Strip(SubSeq(s, 1, Len(s) - 1))
    ELSE s

\* s.replace(old, new)
RECURSIVE Replace(_, _, _)
Replace(s, old, new) ==
    LET k == Find(s, old, 0, Len(s))
    IN  IF k = 0 - 1 THEN s
        ELSE SliceTo(s, k) \o new \o Replace(SliceFrom(s, k + Len(old)), old, new)

\* re.sub(r"[A-Za-z]", "", s)
IsNotLetter(c) == c \notin Letters
RemoveLetters(s) == SelectSeq(s, IsNotLetter)

\* the number written by a sequence of digits
RECURSIVE DigitsValue(_)
DigitsValue(ds) ==
    IF ds = <<>> THEN 0
    ELSE 10 * DigitsValue(SubSeq(ds, 1, Len(ds) - 1)) + DigitValue(ds[Len(ds)])

AllDigits(s) == \A k \in 1..Len(s) : s[k] \in Digits

\* the sign written in front of a number
SignOf(s) == IF s # <<>> /\ s[1] = "-" THEN 0 - 1 ELSE 1

\* int(s): surrounding blanks and a sign are accepted, then digits only;
\* anything else raises ValueError
IntOf(s) ==
    LET t == Strip(s)
        u == IF t # <<>> /\ t[1] \in {"+", "-"} THEN Tail(t) ELSE t
    IN  IF u # <<>> /\ AllDigits(u)
        THEN [exc |-> "none", v |-> SignOf(t) * DigitsValue(u)]
        ELSE [exc |-> "ValueError", v |-> 0]

\* a float is kept as the decimal num / 10^exp with no trailing zero in the
\* fraction, so that equal floats are equal values
RECURSIVE Normal(_, _)
Normal(num, exp) ==
    IF exp > 0 /\ num % 10 = 0 THEN Normal(num \div 10, exp - 1) ELSE [num |-> num, exp |-> exp]

\* float(s) for the decimal notation (blanks around, a sign, digits with at
\* most one period and at least one digit); every other text of the alphabet
\* of the model raises ValueError
FloatOf(s) ==
    LET t == Strip(s)
        u == IF t # <<>> /\ t[1] \in {"+", "-"} THEN Tail(t) ELSE t
        k == Find(u, <<".">>, 0, Len(u))
        whole == IF k = 0 - 1 THEN u ELSE SliceTo(u, k)
        frac == IF k = 0 - 1 THEN <<>> ELSE SliceFrom(u, k + 1)
    IN  IF AllDigits(whole) /\ AllDigits(frac) /\ Len(whole) + Len(frac) > 0
        THEN [exc |-> "none",
              v |-> Normal(SignOf(t) * DigitsValue(whole \o frac), Len(frac))]
        ELSE [exc |-> "ValueError", v |-> Normal(0, 0)]

(***************************************************************************)
(* read_grades (src/grades.py)                                             *)
(* A float is the value of FloatOf, a record is a tuple (grade, credits)   *)
(* or (grade, gained_credits, credits), and the dict grades is the         *)
(* sequence of its <<course, record>> items in insertion order.            *)
(***************************************************************************)
\* grades[course] = record
StoreKeepingFirst(g, course, record) ==
    IF \E k \in 1..Len(g) : g[k][1] = course
    THEN g
    ELSE Append(g, <<course, record>>)

Store(g, course, record) ==
    IF \E k \in 1..Len(g) : g[k][1] = course
    THEN [k \in 1..Len(g) |-> IF g[k][1] = course THEN <<course, record>> ELSE g[k]]
    ELSE Append(g, <<course, record>>)

\* the last piece of a split
LastOf(parts) == parts[Len(parts)]

\* lines 32-40: the profile of the certified layout; the bare except leaves
\* what was assigned before the failing statement
ProfileCertified(d) ==
    LET p0 == [name |-> NoneValue, surname |-> NoneValue, academic_year |-> NoneValue,
               birth_date |-> NoneValue, birth_location |-> NoneValue]
        year == IntOf(Split(LastOf(Split(d[1], <<" ">>)), <<"/">>)[1])
        p1 == [p0 EXCEPT !.academic_year = Value(year.v)]
        names == Split(d[5], <<" ">>)
        p2 == [p1 EXCEPT !.surname = Value(names[1]), !.name = Value(names[2])]
        birth == Tail(Split(d[10], <<":">>))
        p3 == [p2 EXCEPT
                 !.birth_date = Value(Strip(SliceTo(birth[1], Len(birth[1]) - 4))),
                 !.birth_location = Value(Strip(birth[2]))]
    IN  IF year.exc # "none" THEN p0
        ELSE IF ~HasItem(d, 4) THEN p1
        ELSE IF Len(names) # 2 THEN p1
        ELSE IF ~HasItem(d, 9) THEN p2
        ELSE IF Len(birth) # 2 THEN p2
        ELSE p3

\* lines 80-85: the profile of the uncertified layout; academic_year is not
\* among the variables line 80 sets to None
ProfileUncertified(d) ==
    LET p0 == [name |-> NoneValue, surname |-> NoneValue, academic_year |-> Unbound,
               birth_date |-> NoneValue, birth_location |-> NoneValue]
        names == Split(d[3], <<" ">>)
        p1 == [p0 EXCEPT !.name = Value(names[1]), !.surname = Value(names[2])]
        year == IntOf(Strip(LastOf(Split(Split(d[5], <<"/">>)[1], <<":">>))))
        p2 == [p1 EXCEPT !.academic_year = Value(year.v)]
    IN  IF ~HasItem(d, 2) THEN p0
        ELSE IF Len(names) # 2 THEN p0
        ELSE IF ~HasItem(d, 4) THEN p1
        ELSE IF year.exc # "none" THEN p1
        ELSE p2

\* what one iteration of a for loop did: took is "skip" (the line is no
\* course line), "stop" (break), "record" (a record was stored) or "raise"
\* (an exception left the course branch)
Skipped(g, gc) == [took |-> "skip", exc |-> "none", grades |-> g, gained |-> gc]
Stopped(g, gc) == [took |-> "stop", exc |-> "none", grades |-> g, gained |-> gc]
Raised(e, g, gc) == [took |-> "raise", exc |-> e, grades |-> g, gained |-> gc]
Stored(g, gc) == [took |-> "record", exc |-> "none", grades |-> g, gained |-> gc]

\* credits of a certified line (lines 60-63 and 73-76): int(line[-1]) when
\* line[-2] is a blank, else 0
CertifiedCredits(line) ==
    IF ~HasItem(line, 0 - 2) THEN [exc |-> "IndexError", v |-> 0]
    ELSE IF Item(line, 0 - 2) = " " THEN IntOf(<<Item(line, 0 - 1)>>)
    ELSE [exc |-> "none", v |-> 0]

\* line 48: the terminal marker of the MASTER 1 bulletin
MasterStopsNever(line) == FALSE

MasterStops(line) == StartsWith(line, <<"O", "v", "e", "r", "a", "l", "l", " ", "R", "e", "s", "u", "l", "t">>)

\* lines 47-65: one line of the certified MASTER 1 bulletin
MasterLine(line, g, gc) ==
    IF MasterStops(line) THEN Stopped(g, gc)
    ELSE IF StartsWith(line, <<"S", "E", "M", "E", "S", "T", "E", "R">>) THEN Skipped(g, gc)
    ELSE
      LET bline == SliceFrom(line, 5)
          idx_end == Find(bline, <<"/", "2", "0">>, 0, Len(bline))
          idx_beg == RFind(bline, <<" ">>, 0, idx_end)
          grade == FloatOf(Replace(Strip(Slice(bline, idx_beg, idx_end)), <<",">>, <<".">>))
          course == Slice(line, 0, idx_beg + 5)
          credits == CertifiedCredits(line)
      IN  IF idx_end = 0 - 1 THEN Skipped(g, gc)
          ELSE IF grade.exc # "none" THEN Raised(grade.exc, g, gc)
          ELSE IF credits.exc # "none" THEN Raised(credits.exc, g, gc)
          ELSE Stored(Store(g, course, <<grade.v, credits.v>>), gc)

\* lines 66-78: one line of the other certified bulletins
DefaultLine(line0, g, gc) ==
    IF ~StartsWith(line0, <<"U", "E">>) THEN Skipped(g, gc)
    ELSE
      LET line == SliceFrom(line0, 5)
          idx_end == Find(line, <<"/", "2", "0">>, 0, Len(line))
          idx_beg == RFind(line, <<" ">>, 0, idx_end - 1)
          grade == FloatOf(Replace(Strip(Slice(line, idx_beg, idx_end)), <<",">>, <<".">>))
          course == SliceTo(line, idx_beg)
          credits == CertifiedCredits(line)
      IN  IF idx_end = 0 - 1 THEN Raised("ValueError", g, gc)
          ELSE IF grade.exc # "none" THEN Raised(grade.exc, g, gc)
          ELSE IF credits.exc # "none" THEN Raised(credits.exc, g, gc)
          ELSE Stored(Store(g, course, <<grade.v, credits.v>>), gc)

\* line 89: the lines of the uncertified bulletin taken as course lines
HasHeaderKeyword(line) ==
    \/ Contains(line, <<"S", "e", "m", "e", "s", "t", "r", "e">>)
    \/ Contains(line, <<"L", "3">>)
    \/ Contains(line, <<"M", "o", "y", "e", "n", "n", "e">>)
    \/ Contains(line, <<"S", "é", "m", "i", "n", "a", "i", "r", "e">>)
    \/ Contains(line, <<"S", "t", "a", "g", "e">>)
    \/ Contains(line, <<"M", "a", "s", "t", "e", "r">>)

IsCourseLineByStatusOnly(line) ==
    /\ EndsWith(line, <<"A", "J">>) \/ EndsWith(line, <<"A", "D", "M">>)
    /\ ~HasHeaderKeyword(line)

IsCourseLine(line) ==
    /\ StartsWith(line, <<"U", "E">>) \/ EndsWith(line, <<"A", "J">>) \/ EndsWith(line, <<"A", "D", "M">>)
    /\ ~HasHeaderKeyword(line)

\* lines 90-93: the course line without its first word and without the
\* imaginary ECTS and the UE prefixes
CleanedLine(line0) ==
    Replace(Replace(Replace(SliceFrom(line0, Find(line0, <<" ">>, 0, Len(line0)) + 1),
                            <<"I", "/">>, <<"/">>), <<"U", "E", " ", "-", " ">>, <<>>), <<"E", "U", " ", "-", " ">>, <<>>)

\* lines 104-107: the course of a cleaned line without slash
SlashlessCourse(line) ==
    SliceTo(line, RFind(line, <<" ">>, 0, RFind(line, <<" ">>, 0, Len(line))))

\* lines 90-109: one course line of the uncertified bulletin; gc is
\* gained_credits as the previous iterations left it
UncertifiedCourse(line0, g, gc) ==
    LET sp == Find(line0, <<" ">>, 0, Len(line0))
        line == CleanedLine(line0)
        idx_slash == RFind(line, <<"/">>, 0, Len(line))
        \* with a slash (lines 98-101)
        grade_s == FloatOf(RemoveLetters(
                      Replace(Strip(Slice(line, idx_slash + 3, RFind(line, <<" ">>, 0, Len(line)))),
                              <<",">>, <<".">>)))
        course_s == SliceTo(line, idx_slash - 2)
        gained_s == IntOf(Slice(line, idx_slash - 1, idx_slash))
        credits_s == IntOf(Slice(line, idx_slash + 1, idx_slash + 2))
        \* without (lines 104-108)
        idx_end == RFind(line, <<" ">>, 0, Len(line))
        idx_beg == RFind(line, <<" ">>, 0, idx_end)
        grade_n == FloatOf(RemoveLetters(
                      Replace(Strip(Slice(line, idx_beg + 1, idx_end)), <<",">>, <<".">>)))
        course_n == SlashlessCourse(line)
    IN  IF sp = 0 - 1 THEN Raised("ValueError", g, gc)
        ELSE IF idx_slash # 0 - 1
        THEN IF grade_s.exc # "none" THEN Raised(grade_s.exc, g, gc)
             ELSE IF gained_s.exc # "none" THEN Raised(gained_s.exc, g, gc)
             ELSE IF credits_s.exc # "none" THEN Raised(credits_s.exc, g, Value(gained_s.v))
             ELSE Stored(Store(g, course_s, <<grade_s.v, gained_s.v, credits_s.v>>),
                         Value(gained_s.v))
        ELSE IF grade_n.exc # "none" THEN Raised(grade_n.exc, g, gc)
             ELSE IF gc.kind = "unbound" THEN Raised("UnboundLocalError", g, gc)
             ELSE Stored(Store(g, course_n, <<grade_n.v, gc.v, 0>>), gc)

\* lines 88-109: one line of the uncertified bulletin
UncertifiedLine(line, g, gc) ==
    IF IsCourseLine(line) THEN UncertifiedCourse(line, g, gc) ELSE Skipped(g, gc)

(***************************************************************************)
(* Bulletins: the text lines pdfplumber extracts                           *)
(***************************************************************************)
MaxBody == 2

Filler == <<"-">>

\* the ten first lines of a certified bulletin
CertifiedHeader(track, names, birth) ==
    <<<<"Y", "e", "a", "r", " ", "2", "0", "2", "3", "/", "2", "0", "2", "4">>, Filler, Filler, Filler, names,
      Filler, Filler, Filler, track, birth>>

CertifiedHeaders ==
    { CertifiedHeader(<<"L", "I", "C", "E", "N", "C", "E", " ", "3">>, <<"D", "U", "P", "O", "N", "T", " ", "J", "e", "a", "n">>, <<"B", "o", "r", "n", ":", " ", "1", " ", "M", "a", "y", " ", "1", "9", "9", "9", " ", "a", "t", " ", ":", " ", "L", "y", "o", "n">>),
      CertifiedHeader(<<"M", "A", "S", "T", "E", "R", " ", "1", " ", "C", "O", "M", "P", "U", "T", "E", "R", " ", "S", "C", "I", "E", "N", "C", "E">>, <<"D", "U", "P", "O", "N", "T", " ", "J", "e", "a", "n">>, <<"B", "o", "r", "n", ":", " ", "1", " ", "M", "a", "y", " ", "1", "9", "9", "9", " ", "a", "t", " ", ":", " ", "L", "y", "o", "n">>),
      CertifiedHeader(<<"M", "A", "S", "T", "E", "R", " ", "1", " ", "C", "O", "M", "P", "U", "T", "E", "R", " ", "S", "C", "I", "E", "N", "C", "E">>, <<"D", "U", "P", "O", "N", "T", " ", "J", "e", "a", "n">>, <<"B", "o", "r", "n", ":", " ", "0", "1", "/", "0", "5", "/", "2", "0", "0", "0", " ", "a", "t", " ", ":", " ", "L", "y", "o", "n">>),
      CertifiedHeader(<<"L", "I", "C", "E", "N", "C", "E", " ", "3">>, <<"D", "E", " ", "L", "A", " ", "T", "O", "U", "R", " ", "J", "e", "a", "n">>, <<"B", "o", "r", "n", " ", "1", " ", "M", "a", "y", " ", "1", "9", "9", "9">>),
      SubSeq(CertifiedHeader(<<"L", "I", "C", "E", "N", "C", "E", " ", "3">>, <<"D", "U", "P", "O", "N", "T", " ", "J", "e", "a", "n">>, <<"B", "o", "r", "n", ":", " ", "1", " ", "M", "a", "y", " ", "1", "9", "9", "9", " ", "a", "t", " ", ":", " ", "L", "y", "o", "n">>), 1, 5) }

\* the five first lines of an uncertified bulletin
UncertifiedHeader(names, year) == <<Filler, Filler, names, Filler, year>>

UncertifiedHeaders ==
    { UncertifiedHeader(<<"J", "e", "a", "n", " ", "D", "u", "p", "o", "n", "t">>, <<"A", "n", "n", "e", "e", " ", ":", " ", "2", "0", "2", "3", "/", "2", "0", "2", "4">>),
      UncertifiedHeader(<<"J", "e", "a", "n", " ", "P", "i", "e", "r", "r", "e", " ", "D", "u", "p", "o", "n", "t">>, <<"A", "n", "n", "e", "e", " ", ":", " ", "2", "0", "2", "3", "/", "2", "0", "2", "4">>),
      UncertifiedHeader(<<"J", "e", "a", "n", " ", "D", "u", "p", "o", "n", "t">>, <<"A", "n", "n", "e", "e", " ", "u", "n", "i", "v", "e", "r", "s", "i", "t", "a", "i", "r", "e">>),
      SubSeq(UncertifiedHeader(<<"J", "e", "a", "n", " ", "D", "u", "p", "o", "n", "t">>, <<"A", "n", "n", "e", "e", " ", ":", " ", "2", "0", "2", "3", "/", "2", "0", "2", "4">>), 1, 3) }

CertifiedLines ==
    { <<"U", "E", " ", "1", " ", "A", "l", "g", " ", "1", "2", ",", "5", "/", "2", "0", " ", "6">>,
      <<"U", "E", " ", "1", " ", "A", "l", "g", " ", "9", "/", "2", "0">>,
      <<"U", "E", " ", "2", " ", "H", "i", "s", " ", "8", "/", "2", "0">>,
      <<"U", "E", " ", "6", " ", "A", "/", "2", "0", " ", "B", " ", "9", "/", "2", "0", " ", "3">>,
      <<"U", "E", " ", "3", " ", "C", "h", "i">>,
      <<"U", "E", " ", "4", " ", "P", "h", "y", " ", "1", "6", "F", "/", "2", "0", " ", "3">>,
      <<"S", "E", "M", "E", "S", "T", "E", "R", " ", "1", " ", "1", "1", "/", "2", "0">>,
      <<"O", "v", "e", "r", "a", "l", "l", " ", "R", "e", "s", "u", "l", "t", " ", "1", "2", "/", "2", "0">>,
      <<"T", "o", "t", "a", "l", " ", "1", "1", "/", "2", "0", " ", "9">> }

UncertifiedLines ==
    { <<"X", "1", " ", "A", "l", "g", " ", "6", "/", "6", " ", "1", "2", ",", "5", " ", "A", "D", "M">>,
      <<"X", "6", " ", "A", "l", "g", " ", "3", "/", "6", " ", "9", " ", "A", "J">>,
      <<"X", "2", " ", "H", "i", "s", " ", "8", " ", "A", "J">>,
      <<"X", "3", " ", "P", "h", "y", " ", "3", "/", "3", " ", "1", "6", "F", " ", "A", "D", "M">>,
      <<"X", "4", " ", "B", "i", "o", " ", "2", "I", "/", "3", " ", "1", "1", " ", "A", "D", "M">>,
      <<"S", "e", "m", "e", "s", "t", "r", "e", " ", "1", " ", "1", "2", " ", "A", "D", "M">>,
      <<"U", "E", " ", "C", "h", "i">>,
      <<"U", "E", "5", " ", "G", "e", "o", " ", "6", "/", "6", " ", "1", "2", " ", "V", "A", "L">>,
      <<"N", "o", "t", "e", " ", "f", "i", "n", "a", "l", "e">>,
      <<"A", "D", "M">> }

(***************************************************************************)
(* The script src/grades.py                                                *)
(***************************************************************************)
InitParse ==
    /\ grades_file = <<>>
    /\ grades_data = <<>>
    /\ table_data = NoTable
    /\ passed_all = TRUE
    /\ outcome = "none"
    /\ story = <<>>
    /\ grade_20 = None
    /\ converted = <<>>
    /\ pc = "p_start"
    /\ certified \in BOOLEAN
    /\ \/ data = <<>>
       \/ \E h \in CertifiedHeaders \cup UncertifiedHeaders :
          \E n \in 0..MaxBody :
          \E body \in [1..n -> IF certified THEN CertifiedLines ELSE UncertifiedLines] :
             data = h \o body
    /\ profile = NoProfile
    /\ master = FALSE
    /\ pos = 0
    /\ grades = <<>>
    /\ gained_credits = Unbound
    /\ took = "none"
    /\ result = NoResult
    /\ exc = "none"
    /\ saved = NotSaved
    /\ MoreIdle

\* lines 17-28: the extracted lines; None for a bulletin without text
ReadRawData ==
    /\ pc = "p_start"
    /\ IF Len(data) = 0
       THEN /\ result' = ReturnedNone
            /\ pc' = "p_returned"
       ELSE /\ result' = result
            /\ pc' = "p_profile"
    /\ UNCHANGED <<more_vars, agg_vars, data, certified, profile, master, pos, grades,
                   gained_credits, took, exc, saved>>

\* lines 31-45 and 79-87: the profile and the slice n_data, of which pos is
\* the index in data of the next line
ReadProfile ==
    /\ pc = "p_profile"
    /\ IF certified
       THEN /\ profile' = ProfileCertified(data)
            /\ IF HasItem(data, 8)
               THEN /\ master' = Contains(data[9], <<"M", "A", "S", "T", "E", "R", " ", "1", " ", "C", "O", "M", "P", "U", "T", "E", "R", " ", "S", "C", "I", "E", "N", "C", "E">>)
                    /\ pos' = 5 + 2 * (IF master' THEN 1 ELSE 0)
                    /\ exc' = exc
                    /\ pc' = "p_loop"
               ELSE /\ master' = master
                    /\ pos' = pos
                    /\ exc' = "IndexError"
                    /\ pc' = "p_crashed"
       ELSE /\ profile' = ProfileUncertified(data)
            /\ master' = master
            /\ pos' = 5
            /\ exc' = exc
            /\ pc' = "p_loop"
    /\ UNCHANGED <<more_vars, agg_vars, data, certified, grades, gained_credits, took, result, saved>>

\* the body of the for loop that runs on a line
LineStep(line) ==
    IF certified
    THEN IF master THEN MasterLine(line, grades, gained_credits)
                   ELSE DefaultLine(line, grades, gained_credits)
    ELSE UncertifiedLine(line, grades, gained_credits)

\* lines 46-78 and 88-109: one iteration of the for loop
ParseLine ==
    /\ pc = "p_loop"
    /\ pos < Len(data)
    /\ took # "stop"
    /\ LET step == LineStep(data[pos + 1])
       IN  /\ pos' = pos + 1
           /\ took' = step.took
           /\ grades' = step.grades
           /\ gained_credits' = step.gained
           /\ exc' = step.exc
           /\ pc' = IF step.exc = "none" THEN "p_loop" ELSE "p_crashed"
    /\ UNCHANGED <<more_vars, agg_vars, data, certified, profile, master, result, saved>>

\* line 110: return name, surname, academic_year, birth_date, birth_location, grades
ReturnGrades ==
    /\ pc = "p_loop"
    /\ pos >= Len(data) \/ took = "stop"
    /\ IF profile.academic_year.kind = "unbound"
       THEN /\ exc' = "UnboundLocalError"
            /\ result' = result
            /\ pc' = "p_crashed"
       ELSE /\ exc' = exc
            /\ result' = [kind |-> "tuple", profile |-> profile, grades |-> grades]
            /\ pc' = "p_returned"
    /\ UNCHANGED <<more_vars, agg_vars, data, certified, profile, master, pos, grades,
                   gained_credits, took, saved>>

\* lines 119-123: the six values are unpacked and grades is written to
\* config/grades.json
SaveGrades ==
    /\ pc = "p_returned"
    /\ IF result.kind = "None"
       THEN /\ exc' = "TypeError"
            /\ saved' = saved
            /\ pc' = "p_crashed"
       ELSE /\ exc' = exc
            /\ saved' = [kind |-> "json", grades |-> result.grades]
            /\ pc' = "p_saved"
    /\ UNCHANGED <<more_vars, agg_vars, data, certified, profile, master, pos, grades,
                   gained_credits, took, result>>

NextParse ==
    \/ ReadRawData
    \/ ReadProfile
    \/ ParseLine
    \/ ReturnGrades
    \/ SaveGrades

SpecParse == InitParse /\ [][NextParse]_vars

(***************************************************************************)
(* The conversion of a grade token (src/grades.py lines 57, 70, 98, 106)   *)
(***************************************************************************)
MaxFrac == 2
MaxGrade == 20

\* float(token.strip().replace(",", ".")): lines 57 and 70
CertifiedGrade(text) == FloatOf(Replace(Strip(text), <<",">>, <<".">>))

\* float(re.sub(r"[A-Za-z]", "", token.strip().replace(",", "."))): lines 98 and 106
UncertifiedGradeKeepingComma(text) == FloatOf(RemoveLetters(Strip(text)))

UncertifiedGrade(text) == FloatOf(RemoveLetters(Replace(Strip(text), <<",">>, <<".">>)))

\* the decimal numeral of a natural number and of a sequence of digits
DigitChar(d) == <<"0", "1", "2", "3", "4", "5", "6", "7", "8", "9">>[d + 1]

RECURSIVE Numeral(_)
Numeral(n) == IF n < 10 THEN <<DigitChar(n)>> ELSE Append(Numeral(n \div 10), DigitChar(n % 10))

DigitsText(ds) == [k \in 1..Len(ds) |-> DigitChar(ds[k])]

\* a decimal of 0..20 as a bulletin writes it, with a comma before the
\* fraction digits
WrittenText(w) ==
    IF Len(w.frac) = 0 THEN Numeral(w.units)
    ELSE Numeral(w.units) \o <<",">> \o DigitsText(w.frac)

\* tokens that are no decimal: letters and punctuation around or without digits
NoiseTokens ==
    { <<>>, <<"F">>, <<"A", "B">>, <<",">>, <<".">>, <<"-">>, <<"F", ",">>, <<"1", "6", "F">>, <<"1", "F", "6">>, <<"F", "7", ",", "5">>, <<"A", "B", "S">> }

InitToken ==
    /\ grades_file = <<>>
    /\ grades_data = <<>>
    /\ table_data = NoTable
    /\ passed_all = TRUE
    /\ outcome = "none"
    /\ story = <<>>
    /\ grade_20 = None
    /\ converted = <<>>
    /\ pc = "t_start"
    /\ data = <<>>
    /\ certified = TRUE
    /\ profile = NoProfile
    /\ master = FALSE
    /\ pos = 0
    /\ grades = <<>>
    /\ gained_credits = Unbound
    /\ took = "none"
    /\ result = NoResult
    /\ exc = "none"
    /\ saved = NotSaved
    /\ ValidatorIdle
    /\ BatchIdle
    /\ RunsIdle
    /\ applied = "none"
    /\ parsed = NotParsed
    /\ \/ /\ written = NotWritten
          /\ token \in NoiseTokens
       \/ \E u \in 0..MaxGrade : \E n \in 0..MaxFrac : \E f \in [1..n -> 0..9] :
          \E blank \in BOOLEAN :
             /\ u = MaxGrade => \A k \in 1..n : f[k] = 0
             /\ written = [kind |-> "decimal", units |-> u, frac |-> f]
             /\ token = (IF blank THEN <<" ">> ELSE <<>>) \o WrittenText(written)

\* line 57 (and 70): the grade of a certified course line
ConvertCertifiedGrade ==
    /\ pc = "t_start"
    /\ applied' = "certified"
    /\ parsed' = CertifiedGrade(token)
    /\ pc' = "t_done"
    /\ UNCHANGED <<agg_vars, parser_vars, validator_vars, batch_vars, runs_vars, written, token>>

\* line 98 (and 106): the grade of an uncertified course line
ConvertUncertifiedGrade ==
    /\ pc = "t_start"
    /\ applied' = "uncertified"
    /\ parsed' = UncertifiedGrade(token)
    /\ pc' = "t_done"
    /\ UNCHANGED <<agg_vars, parser_vars, validator_vars, batch_vars, runs_vars, written, token>>

NextToken ==
    \/ ConvertCertifiedGrade
    \/ ConvertUncertifiedGrade

SpecToken == InitToken /\ [][NextToken]_vars

(***************************************************************************)
(* GradeValidator.validate_grades_data (module grades_processor, called at *)
(* src/api/batch.py line 97 and src/api/single.py line 59).  A record is   *)
(* <<grade, creditsEarned, creditsMax>> with the grade in points of        *)
(* 1/GradeScale and the credits in half credits, so that a credit count    *)
(* that is no integer can be written.                                      *)
(***************************************************************************)
IsWhole(c) == c % 2 = 0

\* the checks of one record, in the order of the contract
GradeInRange(r) == r[1] = None \/ (Pts(0) <= r[1] /\ r[1] <= Pts(MaxGrade))
EarnedIsCount(r) == IsWhole(r[2]) /\ r[2] >= 0
MaxIsCount(r) == IsWhole(r[3]) /\ r[3] >= 0
EarnedWithinMax(r) == r[2] <= r[3]

\* the errors of one course: one message for each check that fails
CourseErrors(title, r) ==
    (IF GradeInRange(r) THEN <<>> ELSE <<<<title, "grade">>>>)
      \o (IF EarnedIsCount(r) THEN <<>> ELSE <<<<title, "creditsEarned">>>>)
      \o (IF MaxIsCount(r) THEN <<>> ELSE <<<<title, "creditsMax">>>>)
      \o (IF EarnedWithinMax(r) THEN <<>> ELSE <<<<title, "creditsEarned > creditsMax">>>>)

\* the errors of the courses 1..i
RECURSIVE ErrorsUpTo(_, _)
ErrorsUpTo(gd, i) ==
    IF i = 0 THEN <<>> ELSE ErrorsUpTo(gd, i - 1) \o CourseErrors(gd[i][1], gd[i][2])

\* is_valid, errors = validate_grades_data(grades)
ValidateFailFast(gd) ==
    LET errors == ErrorsUpTo(gd, Len(gd))
    IN  [is_valid |-> errors = <<>>,
         errors |-> IF errors = <<>> THEN <<>> ELSE <<errors[1]>>]

validate_grades_data(gd) ==
    LET errors == ErrorsUpTo(gd, Len(gd))
    IN  [is_valid |-> errors = <<>>, errors |-> errors]

\* the records handed to the validator
ValidatorGrades == {None, Pts(0 - 1), Pts(MaxGrade), Pts(MaxGrade) + 1}
ValidatorRecords == ValidatorGrades \X {0 - 2, 0, 3, 6} \X {0 - 2, 0, 4}

InitValidate ==
    /\ grades_file = <<>>
    /\ grades_data = <<>>
    /\ table_data = NoTable
    /\ passed_all = TRUE
    /\ outcome = "none"
    /\ story = <<>>
    /\ grade_20 = None
    /\ converted = <<>>
    /\ pc = "v_start"
    /\ data = <<>>
    /\ certified = TRUE
    /\ profile = NoProfile
    /\ master = FALSE
    /\ pos = 0
    /\ grades = <<>>
    /\ gained_credits = Unbound
    /\ took = "none"
    /\ result = NoResult
    /\ exc = "none"
    /\ saved = NotSaved
    /\ TokenIdle
    /\ BatchIdle
    /\ RunsIdle
    /\ \E n \in 0..MaxCourses : \E infos \in [1..n -> ValidatorRecords] :
          table_given = TableOf(infos)
    /\ table_after = <<>>
    /\ validation = NotValidated

\* the call of validate_grades_data: a read-only check
ValidateGradesData ==
    /\ pc = "v_start"
    /\ validation' = validate_grades_data(table_given)
    /\ table_after' = table_given
    /\ pc' = "v_done"
    /\ UNCHANGED <<agg_vars, parser_vars, token_vars, batch_vars, runs_vars, table_given>>

NextValidate == ValidateGradesData

SpecValidate == InitValidate /\ [][NextValidate]_vars

(***************************************************************************)
(* The batch endpoint (src/api/batch.py) and the single generation         *)
(* (src/api/single.py).  A student of the Excel file is its grades and the *)
(* step of its processing that raises, if any; an entry of the ZIP, like a *)
(* PDF, is the index of its student and the grades it was rendered from.   *)
(***************************************************************************)
MaxStudents == 2

\* lines 184-188: the boundary of the Content-Type, None when no part holds one
RECURSIVE BoundaryOf(_)
BoundaryOf(parts) ==
    IF parts = <<>> THEN NoneValue
    ELSE IF Contains(parts[1], <<"b", "o", "u", "n", "d", "a", "r", "y", "=">>)
    THEN Value(Strip(Split(parts[1], <<"b", "o", "u", "n", "d", "a", "r", "y", "=">>)[2]))
    ELSE BoundaryOf(Tail(parts))

\* int(self.headers.get('Content-Length', 0)), line 197
ContentLengthOf(header) ==
    IF header.kind = "None" THEN [exc |-> "none", v |-> 0] ELSE IntOf(header.v)

\* send_error_response and send_success_response (lines 302-320)
ErrorResponseWithoutCors(status, message) ==
    [status |-> status, message |-> message, cors |-> FALSE, body |-> {"error"}]

ErrorResponse(status, message) ==
    [status |-> status, message |-> message, cors |-> TRUE, body |-> {"error"}]

SuccessResponse ==
    [status |-> 200, message |-> "Batch transcripts generated successfully", cors |-> TRUE,
     body |-> {"status", "message", "zip_data", "filename", "student_names", "generated_count"}]

\* lines 174-235: the response of a request that is refused before the
\* generation starts, or the go-ahead
Proceed == [go |-> TRUE, response |-> ErrorResponse(0, "")]
Refuse(status, message) == [go |-> FALSE, response |-> ErrorResponse(status, message)]

PostChecks(req) ==
    LET boundary == BoundaryOf(Split(req.content_type, <<";">>))
        content_length == ContentLengthOf(req.content_length)
    IN  IF ~StartsWith(req.content_type, <<"m", "u", "l", "t", "i", "p", "a", "r", "t", "/", "f", "o", "r", "m", "-", "d", "a", "t", "a">>)
        THEN Refuse(400, "Content-Type must be multipart/form-data")
        ELSE IF boundary.kind = "None" \/ boundary.v = <<>>
        THEN Refuse(400, "No boundary found in Content-Type")
        ELSE IF content_length.exc # "none"
        THEN Refuse(500, "Internal server error")
        ELSE IF content_length.v = 0
        THEN Refuse(400, "No data received")
        ELSE IF "students_excel" \notin req.fields
        THEN Refuse(400, "Missing students_excel file")
        ELSE IF "author_info" \notin req.fields
        THEN Refuse(400, "Missing author_info file")
        ELSE IF req.yaml # "author"
        THEN Refuse(400, "Invalid author info YAML")
        ELSE Proceed

\* lines 98 and single.py line 60: if not is_valid
RejectedNever(validated) == FALSE

Rejected(validated) == ~validated.is_valid

\* the grades tables of the students
BatchTables ==
    { <<>>,
      <<<<"Algebra", <<Pts(12), 12, 12>>>>, <<"History", <<Pts(8), 0, 12>>>>>>,
      <<<<"Algebra", <<Pts(MaxGrade) + 1, 12, 12>>>>>>,
      <<<<"Algebra", <<Pts(12), 12, 12>>>>, <<"History", <<Pts(8), 12, 0>>>>>> }

\* the call of the loop body that raises for a student
Faults == {"none", "combine", "name", "format", "generate", "read"}

Students == [grades : BatchTables, fault : Faults]

ContentTypes ==
    { <<>>, <<"a", "p", "p", "l", "i", "c", "a", "t", "i", "o", "n", "/", "j", "s", "o", "n">>, <<"m", "u", "l", "t", "i", "p", "a", "r", "t", "/", "f", "o", "r", "m", "-", "d", "a", "t", "a">>,
      <<"m", "u", "l", "t", "i", "p", "a", "r", "t", "/", "f", "o", "r", "m", "-", "d", "a", "t", "a", ";", " ", "b", "o", "u", "n", "d", "a", "r", "y", "=">>, <<"m", "u", "l", "t", "i", "p", "a", "r", "t", "/", "f", "o", "r", "m", "-", "d", "a", "t", "a", ";", " ", "b", "o", "u", "n", "d", "a", "r", "y", "=", "x", "Y">> }

ContentLengths == {NoneValue, Value(<<"0">>), Value(<<"1", "2">>), Value(<<"a", "b", "c">>)}

\* the author YAML: a mapping with the key author, a mapping without, an
\* empty document, a text that is no YAML
Yamls == {"author", "mapping", "empty", "malformed"}

Requests ==
    [content_type : ContentTypes, content_length : ContentLengths,
     fields : SUBSET {"students_excel", "author_info"}, yaml : Yamls,
     excel : {"workbook", "unreadable"}]

InitBatch ==
    /\ grades_file = <<>>
    /\ grades_data = <<>>
    /\ table_data = NoTable
    /\ passed_all = TRUE
    /\ outcome = "none"
    /\ story = <<>>
    /\ grade_20 = None
    /\ converted = <<>>
    /\ data = <<>>
    /\ certified = TRUE
    /\ profile = NoProfile
    /\ master = FALSE
    /\ pos = 0
    /\ grades = <<>>
    /\ gained_credits = Unbound
    /\ took = "none"
    /\ result = NoResult
    /\ exc = "none"
    /\ saved = NotSaved
    /\ TokenIdle
    /\ ValidatorIdle
    /\ RunsIdle
    /\ \/ /\ pc = "h_start"
          /\ request \in Requests
          /\ IF PostChecks(request).go
             THEN \E n \in 0..MaxStudents : students \in [1..n -> Students]
             ELSE students = <<>> /\ request.excel = "workbook"
       \/ /\ pc = "s_start"
          /\ request = NoRequest
          /\ students \in [1..1 -> Students]
    /\ student_index = 0
    /\ zip_file = <<>>
    /\ student_names = <<>>
    /\ successful_count = 0
    /\ batch_result = NotEnded
    /\ single_result = NotEnded
    /\ responses = <<>>

\* do_POST, lines 174-241: the checks of the request
DoPostChecks ==
    /\ pc = "h_start"
    /\ IF PostChecks(request).go
       THEN /\ responses' = responses
            /\ pc' = "b_start"
       ELSE /\ responses' = Append(responses, PostChecks(request).response)
            /\ pc' = "h_done"
    /\ UNCHANGED <<agg_vars, parser_vars, token_vars, validator_vars, runs_vars, request, students,
                   student_index, zip_file, student_names, successful_count,
                   batch_result, single_result>>

\* lines 53-75: the students of the Excel file and the text templates
LoadStudents ==
    /\ pc = "b_start"
    /\ IF request.excel = "unreadable"
       THEN /\ batch_result' = [kind |-> "raised", values |-> <<>>]
            /\ pc' = "b_ended"
       ELSE /\ batch_result' = batch_result
            /\ pc' = "b_loop"
    /\ UNCHANGED <<agg_vars, parser_vars, token_vars, validator_vars, runs_vars, request, students,
                   student_index, zip_file, student_names, successful_count,
                   single_result, responses>>

\* the student is taken to the end of the loop body (lines 79-137)
Generated(student) ==
    /\ student.grades # <<>>
    /\ student.fault \notin {"combine", "name"}
    /\ ~Rejected(validate_grades_data(student.grades))
    /\ student.fault = "none"

\* lines 78-141: one iteration of the loop over the students
ProcessStudent ==
    /\ pc = "b_loop"
    /\ student_index < Len(students)
    /\ student_index' = student_index + 1
    /\ LET student == students[student_index + 1]
       IN  IF Generated(student)
           THEN /\ zip_file' = Append(zip_file, [file |-> student_index + 1,
                                                 pdf |-> student.grades])
                /\ student_names' = Append(student_names, student_index + 1)
                /\ successful_count' = successful_count + 1
           ELSE UNCHANGED <<zip_file, student_names, successful_count>>
    /\ UNCHANGED <<agg_vars, parser_vars, token_vars, validator_vars, runs_vars, request, students,
                   batch_result, single_result, responses, pc>>

\* lines 143-155: return zip_content, zip_filename
ReturnBatch ==
    /\ pc = "b_loop"
    /\ student_index = Len(students)
    /\ batch_result' = [kind |-> "returned", values |-> <<zip_file, "batch_transcripts.zip">>]
    /\ pc' = "b_ended"
    /\ UNCHANGED <<agg_vars, parser_vars, token_vars, validator_vars, runs_vars, request, students,
                   student_index, zip_file, student_names, successful_count,
                   single_result, responses>>

\* do_POST, lines 243-267: the four names are bound to what the generator
\* returned and the response is sent
RespondPost ==
    /\ pc = "b_ended"
    /\ responses' = Append(responses,
          IF batch_result.kind = "raised" THEN ErrorResponse(500, "Internal server error")
          ELSE IF Len(batch_result.values) # 4 THEN ErrorResponse(500, "Internal server error")
          ELSE SuccessResponse)
    /\ pc' = "h_done"
    /\ UNCHANGED <<agg_vars, parser_vars, token_vars, validator_vars, runs_vars, request, students,
                   student_index, zip_file, student_names, successful_count,
                   batch_result, single_result>>

\* generate_single_transcript_from_data (src/api/single.py lines 32-84)
GenerateSingle ==
    /\ pc = "s_start"
    /\ LET student == students[1]
       IN  single_result' =
             IF student.fault \in {"combine", "name"}
             THEN [kind |-> "raised", values |-> <<>>]
             ELSE IF Rejected(validate_grades_data(student.grades))
             THEN [kind |-> "raised", values |-> <<"ValueError">>]
             ELSE IF student.fault # "none"
             THEN [kind |-> "raised", values |-> <<>>]
             ELSE [kind |-> "returned", values |-> <<student.grades, "transcript.pdf">>]
    /\ pc' = "s_done"
    /\ UNCHANGED <<agg_vars, parser_vars, token_vars, validator_vars, runs_vars, request, students,
                   student_index, zip_file, student_names, successful_count,
                   batch_result, responses>>

NextBatch ==
    \/ DoPostChecks
    \/ LoadStudents
    \/ ProcessStudent
    \/ ReturnBatch
    \/ RespondPost
    \/ GenerateSingle

SpecBatch == InitBatch /\ [][NextBatch]_vars


(***************************************************************************)
(* Two runs of the command-line programs in one working directory: each    *)
(* parses the bulletin of its student with src/grades.py, which saves the  *)
(* grades, and then loads the grades as src/main.py does.                  *)
(***************************************************************************)
MaxRunLines == 2

Runs == {1, 2}

\* the course lines of the bulletins of the runs
RunLines ==
    { <<"U", "E", " ", "1", " ", "A", "l", "g", " ", "1", "2", ",", "5", "/", "2", "0", " ", "6">>, <<"U", "E", " ", "1", " ", "A", "l", "g", " ", "9", "/", "2", "0">>, <<"U", "E", " ", "2", " ", "H", "i", "s", " ", "8", "/", "2", "0">>, <<"U", "E", " ", "3", " ", "C", "h", "i">> }

RunBulletins == UNION { [1..n -> RunLines] : n \in 1..MaxRunLines }

\* grades.py lines 66-78: the loop of read_grades over the course lines of a
\* certified bulletin, from the dict g on
RECURSIVE ReadCourses(_, _)
ReadCourses(lines, g) ==
    IF lines = <<>> THEN Stored(g, Unbound)
    ELSE LET step == DefaultLine(lines[1], g, Unbound)
         IN  IF step.exc # "none" THEN step ELSE ReadCourses(Tail(lines), step.grades)

NotRun == [pc |-> "start", file |-> <<>>, grades |-> <<>>, loaded |-> <<>>]

InitRuns ==
    /\ grades_file = <<>>
    /\ grades_data = <<>>
    /\ table_data = NoTable
    /\ passed_all = TRUE
    /\ outcome = "none"
    /\ story = <<>>
    /\ grade_20 = None
    /\ converted = <<>>
    /\ data = <<>>
    /\ certified = TRUE
    /\ profile = NoProfile
    /\ master = FALSE
    /\ pos = 0
    /\ grades = <<>>
    /\ gained_credits = Unbound
    /\ took = "none"
    /\ result = NoResult
    /\ exc = "none"
    /\ saved = NotSaved
    /\ TokenIdle
    /\ ValidatorIdle
    /\ BatchIdle
    /\ pc = "r_runs"
    /\ config_grades_json = NoGradesFile
    /\ \E first \in RunBulletins, second \in RunBulletins :
          runs = << [NotRun EXCEPT !.file = first], [NotRun EXCEPT !.file = second] >>

\* grades.py line 119: read_grades(file, certified) of the run
ReadGradesOf(k) ==
    /\ runs[k].pc = "start"
    /\ LET read == ReadCourses(runs[k].file, <<>>)
       IN  runs' = [runs EXCEPT ![k].pc = IF read.exc = "none" THEN "parsed" ELSE "crashed",
                                ![k].grades = read.grades]
    /\ UNCHANGED <<agg_vars, parser_vars, token_vars, validator_vars, batch_vars,
                   config_grades_json, pc>>

\* grades.py lines 122-123: json.dump(grades, open('config/grades.json', 'w'))
SaveGradesOf(k) ==
    /\ runs[k].pc = "parsed"
    /\ runs' = [runs EXCEPT ![k].pc = "saved"]
    /\ config_grades_json' = [kind |-> "json", grades |-> runs[k].grades]
    /\ UNCHANGED <<agg_vars, parser_vars, token_vars, validator_vars, batch_vars, pc>>

\* main.py lines 356-359 with the default path of line 543:
\* load_grades_data('config/grades.json')
LoadGradesOf(k) ==
    /\ runs[k].pc = "saved"
    /\ runs' = [runs EXCEPT ![k].pc = "loaded", ![k].loaded = config_grades_json.grades]
    /\ UNCHANGED <<agg_vars, parser_vars, token_vars, validator_vars, batch_vars,
                   config_grades_json, pc>>

NextRuns ==
    \/ \E k \in Runs : ReadGradesOf(k)
    \/ \E k \in Runs : SaveGradesOf(k)
    \/ \E k \in Runs : LoadGradesOf(k)

SpecRuns == InitRuns /\ [][NextRuns]_vars

(***************************************************************************)
(* Vocabulary of the properties, stated on the input table and on the      *)
(* returned rows                                                           *)
(***************************************************************************)
RECURSIVE SumSeq(_)
SumSeq(s) == IF s = <<>> THEN 0 ELSE s[1] + SumSeq(Tail(s))

Abs(x) == IF x < 0 THEN 0 - x ELSE x

\* v is a hundredth nearest to the quotient n / d (d > 0)
NearestHundredth(v, n, d) == 2 * Abs(v * d - n) <= d

Courses == 1..Len(grades_data)
GradeOf(gd, i) == gd[i][2][1]
EarnedOf(gd, i) == gd[i][2][2]
MaxOf(gd, i) == gd[i][2][3]

Numeric(gd) == \A i \in 1..Len(gd) : GradeOf(gd, i) # None
GradeTotal(gd) == SumSeq([i \in 1..Len(gd) |-> GradeOf(gd, i)])

\* the unweighted average of the table is above 10 (it is 0 for no course)
AverageAboveTen(gd) == GradeTotal(gd) > Pts(10) * Len(gd)

\* the threshold table of the documentation, top-down
Bands == << <<16, "A+", "4.33">>, <<14, "A", "4.0">>, <<13, "A-", "3.67">>,
            <<12, "B+", "3.33">>, <<11, "B", "3.0">>, <<10, "B-", "2.67">>,
            <<9, "C+", "2.33">>, <<8, "C", "2.0">>, <<7, "C-", "1.67">> >>

BandValues == <<433, 400, 367, 333, 300, 267, 233, 200, 167, 0>>

\* index of the first band a numeric grade reaches, 10 when it reaches none
BandOf(g) ==
    LET reached == {b \in 1..9 : g >= Pts(Bands[b][1])}
    IN  IF reached = {} THEN 10
        ELSE CHOOSE b \in reached : \A c \in reached : b <= c

PointsOf(g) == BandValues[BandOf(g)]

\* the call returned and its result is in table_data, passed_all
Returned == pc \in {"table", "done"} /\ outcome = "returned"
CourseRow(i) == table_data[i + 1]
TotalsRow == table_data[Len(table_data)]

\* credits and GPA points x credits summed over the courses of a set
MaxOver(gd, sel) == SumSeq([i \in 1..Len(gd) |-> IF i \in sel THEN MaxOf(gd, i) ELSE 0])
PointsOver(gd, sel) ==
    SumSeq([i \in 1..Len(gd) |-> IF i \in sel THEN PointsOf(GradeOf(gd, i)) * MaxOf(gd, i) ELSE 0])

PassedCourses(gd) == {i \in 1..Len(gd) : GradeOf(gd, i) >= Pts(10)}

\* the TOTALS row shows the credits of the courses sel and their
\* credit-weighted mean of GPA points
TotalsOver(sel) ==
    /\ TotalsRow[1] = "TOTALS"
    /\ TotalsRow[2] = MaxOver(grades_data, sel)
    /\ MaxOver(grades_data, sel) > 0 =>
         \A v \in TotalsRow[5] :
            NearestHundredth(v, PointsOver(grades_data, sel), MaxOver(grades_data, sel))

\* C1: whenever the unweighted average is <= 10 (exactly 10 included) the
\* TOTALS row shows the sum of creditsMax over the courses with grade >= 10
\* and the GPA weighted by those credits; for {Algebra: [12,6,6], History:
\* [8,0,6]} the average is 10.00, the credits 6 and the GPA 3.33
C1_EarnedCreditBranch ==
    /\ (Returned /\ ~AverageAboveTen(grades_data)) => TotalsOver(PassedCourses(grades_data))
    /\ (Returned /\ grades_data = ScenarioA) =>
         /\ TotalsRow[2] = 6
         /\ TotalsRow[3] = 1000
         /\ TotalsRow[5] = {333}

C1_Witness ==
    /\ pc = "done" /\ outcome = "returned" /\ grades_data = ScenarioA
    /\ TotalsRow[2] = 6

\* C2: whenever the unweighted average is strictly above 10 the TOTALS row
\* shows the sum of creditsMax over all courses, failed ones included, and the
\* GPA weighted by those credits; for {Algebra: [12,6,6], History: [11,6,6]}
\* the average is 11.5 and the credits 12
C2_CompensationBranch ==
    /\ (Returned /\ AverageAboveTen(grades_data)) => TotalsOver(Courses)
    /\ (Returned /\ grades_data = ScenarioB) =>
         /\ TotalsRow[2] = 12
         /\ TotalsRow[3] = 1150

\* a compensated table with a failed course whose credits are counted
C2_Witness ==
    /\ pc = "done" /\ outcome = "returned" /\ AverageAboveTen(grades_data)
    /\ \E i \in Courses : GradeOf(grades_data, i) < Pts(10) /\ MaxOf(grades_data, i) > 0
    /\ TotalsRow[2] = MaxOver(grades_data, Courses)

\* C3: a numeric grade converts to the pair of the first threshold it reaches
\* top-down, F/0.0 when it reaches none, and an absent grade to N/A, N/A
C3_FirstThresholdWins ==
    pc = "converted" =>
        converted = IF grade_20 = None THEN <<"N/A", "N/A">>
                    ELSE IF BandOf(grade_20) = 10 THEN <<"F", "0.0">>
                    ELSE <<Bands[BandOf(grade_20)][2], Bands[BandOf(grade_20)][3]>>

C3_Witness == pc = "converted" /\ grade_20 = Pts(16) /\ converted = <<"A+", "4.33">>

\* the tables that differ from gd in the creditsEarned of one course
EarnedVariants(gd) ==
    {[gd EXCEPT ![k] = <<gd[k][1], <<GradeOf(gd, k), e, MaxOf(gd, k)>>>>] :
        k \in 1..Len(gd), e \in {0, MaxCredits}}

\* C4: every course row shows 0 earned credits when the grade is below 10 and
\* creditsMax otherwise, and tables that differ only in creditsEarned give the
\* same rows and TOTALS row (stated for a difference in one course at the
\* moment the call returns; differences in several courses follow one course
\* at a time, every table being an input)
C4_EarnedRecomputed ==
    Returned =>
        /\ \A i \in Courses :
              CourseRow(i)[2].obtained =
                  IF GradeOf(grades_data, i) < Pts(10) THEN 0 ELSE MaxOf(grades_data, i)
        /\ pc = "table" =>
              \A gd \in EarnedVariants(grades_data) :
                  create_grades_table(gd).table_data = table_data

\* a passed course whose record carries fewer earned credits than shown
C4_Witness ==
    /\ Returned
    /\ \E i \in Courses :
          /\ GradeOf(grades_data, i) >= Pts(10)
          /\ EarnedOf(grades_data, i) < MaxOf(grades_data, i)
          /\ CourseRow(i)[2].obtained = MaxOf(grades_data, i)

\* the tables that differ from gd in the creditsMax of one course
MaxVariants(gd) ==
    {[gd EXCEPT ![k] = <<gd[k][1], <<GradeOf(gd, k), EarnedOf(gd, k), m>>>>] :
        k \in 1..Len(gd), m \in 0..MaxCredits}

\* the branch create_grades_table takes on a table (line 464)
Methodology(gd) ==
    LET acc == CourseLoop(gd, Len(gd))
    IN  IF UseCompensation(AverageGrade(acc.total_grade_sum, acc.total_courses))
        THEN "compensation" ELSE "earned"

\* C5: the average of the TOTALS row is the sum of the grades divided by the
\* number of courses, and changing creditsMax changes neither the average
\* nor the methodology
C5_UnweightedAverage ==
    Returned =>
        /\ Courses # {} =>
              NearestHundredth(TotalsRow[3], 100 * GradeTotal(grades_data),
                               GradeScale * Len(grades_data))
        /\ pc = "table" =>
              \A gd \in MaxVariants(grades_data) :
                  LET t == create_grades_table(gd).table_data
                  IN  /\ t[Len(t)][3] = TotalsRow[3]
                      /\ Methodology(gd) = Methodology(grades_data)

\* two courses with different credits and different grades
C5_Witness ==
    /\ Returned
    /\ Len(grades_data) = 2
    /\ MaxOf(grades_data, 1) # MaxOf(grades_data, 2)
    /\ GradeOf(grades_data, 1) # GradeOf(grades_data, 2)
    /\ 2 * GradeScale * TotalsRow[3] = 100 * GradeTotal(grades_data)

\* C6: passed_all is true exactly when every course has grade >= 10 (true
\* for no course), and the footnote is in the document exactly when
\* passed_all is false
C6_PassedAllAndFootnote ==
    /\ Returned => (passed_all <=> \A i \in Courses : GradeOf(grades_data, i) >= Pts(10))
    /\ (pc = "done" /\ outcome = "returned") =>
          ((\E k \in 1..Len(story) : story[k] = "note") <=> ~passed_all)

C6_Witness ==
    /\ pc = "done" /\ outcome = "returned" /\ ~passed_all
    /\ \E k \in 1..Len(story) : story[k] = "note"

\* C7: when every course grade is >= 10, also when all are exactly 10,
\* passed_all is true and the TOTALS row shows the sum of creditsMax
C7_AllPassedShowsAllCredits ==
    (Returned /\ \A i \in Courses : GradeOf(grades_data, i) >= Pts(10)) =>
        /\ passed_all
        /\ TotalsRow[2] = MaxOver(grades_data, Courses)

\* every grade exactly 10, so the average is exactly 10
C7_Witness ==
    /\ Returned /\ Courses # {}
    /\ \A i \in Courses : GradeOf(grades_data, i) = Pts(10) /\ MaxOf(grades_data, i) > 0
    /\ TotalsRow[2] = MaxOver(grades_data, Courses)

\* C8: when every course grade is below 10 the earned-credit branch is used
\* and the TOTALS row shows 0 credits and a cumulative GPA of 0.00
C8_AllFailedShowsNothing ==
    (Returned /\ \A i \in Courses :
                    GradeOf(grades_data, i) # None /\ GradeOf(grades_data, i) < Pts(10)) =>
        /\ Methodology(grades_data) = "earned"
        /\ TotalsRow[2] = 0
        /\ TotalsRow[5] = {0}

C8_Witness ==
    /\ Returned /\ Courses # {}
    /\ \A i \in Courses : GradeOf(grades_data, i) < Pts(10) /\ MaxOf(grades_data, i) > 0
    /\ \A i \in Courses : GradeOf(grades_data, i) # None
    /\ TotalsRow[2] = 0

\* the call has ended, one way or the other
Called == pc \in {"table", "except", "done", "again"}

\* C9: no zero denominator makes the call fail: a table of numeric grades
\* always gets its TOTALS row; the average is 0 for no course, and the
\* cumulative GPA is 0 when the credits that weight it sum to 0, in the
\* compensation branch and in the earned-credit branch
C9_ZeroDenominators ==
    (Called /\ Numeric(grades_data)) =>
        /\ outcome = "returned"
        /\ TotalsRow[1] = "TOTALS"
        /\ Courses = {} => TotalsRow[3] = 0
        /\ (AverageAboveTen(grades_data) /\ MaxOver(grades_data, Courses) = 0) =>
              TotalsRow[5] = {0}
        /\ (~AverageAboveTen(grades_data)
              /\ MaxOver(grades_data, PassedCourses(grades_data)) = 0) =>
              TotalsRow[5] = {0}

\* a compensated table whose credits sum to 0
C9_Witness ==
    /\ pc = "done" /\ outcome = "returned" /\ Courses # {}
    /\ AverageAboveTen(grades_data) /\ MaxOver(grades_data, Courses) = 0
    /\ TotalsRow[5] = {0}

NumericInputs == ConvertInputs \ {None}

\* C10: the GPA points never decrease when the grade increases, and the ten
\* bands carry the ten values 4.33, 4.0, 3.67, 3.33, 3.0, 2.67, 2.33, 2.0,
\* 1.67, 0.0, strictly decreasing from band to band
C10_MonotoneGpa ==
    (pc = "converted" /\ grade_20 # None) =>
        /\ FloatOfGpa(converted[2]) = BandValues[BandOf(grade_20)]
        /\ \A g \in NumericInputs :
              LET p == FloatOfGpa(convert_grade_to_letter_and_gpa(g)[2])
              IN  /\ g <= grade_20 => p <= FloatOfGpa(converted[2])
                  /\ BandOf(g) > BandOf(grade_20) => p < FloatOfGpa(converted[2])
        /\ \A b \in 1..9 : BandValues[b] > BandValues[b + 1]

\* a grade in a middle band, with grades of lower bands below it
C10_Witness ==
    /\ pc = "converted" /\ grade_20 = Pts(9) /\ converted[2] = "2.33"
    /\ \E g \in NumericInputs : g < grade_20 /\ BandOf(g) > BandOf(grade_20)

C12_InputUnchanged == Called => grades_data = grades_file

\* a compensated table with a failed course, after the call
C12_Witness ==
    /\ pc = "table" /\ AverageAboveTen(grades_data)
    /\ \E i \in Courses : GradeOf(grades_data, i) < Pts(10) /\ EarnedOf(grades_data, i) > 0
    /\ grades_data = grades_file

(***************************************************************************)
(* Properties of read_grades, under SpecParse                              *)
(***************************************************************************)
\* the line the last iteration of the for loop ran on
CurrentLine == data[pos]

\* an iteration has run, in the given layout
Iterated(flag) == certified = flag /\ took # "none"

\* the line was taken into the course branch: a record was stored or an
\* exception left the branch
TakenAsCourse == took \in {"record", "raise"}

\* the records of the dict grades
Records == {grades[k][2] : k \in 1..Len(grades)}

\* the float f lies in lo..hi
FloatWithin(f, lo, hi) == lo * (10 ^ f.exp) <= f.num /\ f.num <= hi * (10 ^ f.exp)

\* C13: when the extracted text has no line, the run ends with the distinct
\* failure ExtractionEmpty being raised, not with a returned value and not
\* with another error.
C13_EmptyRaisesExtractionEmpty ==
    (Len(data) = 0 /\ pc \in {"p_returned", "p_saved", "p_crashed"})
        => (pc = "p_crashed" /\ exc = "ExtractionEmpty")

\* C14: no course line makes read_grades raise: a line whose markers or
\* whose numeric tokens cannot be read is skipped, so no iteration of the
\* loop over the lines ends with an exception.
C14_MalformedLinesSkipped == took # "raise"

\* C15: a profile field that cannot be extracted never aborts the parse:
\* for a bulletin with text, read_grades fails nowhere but inside the
\* processing of a course line.
C15_ProfileNeverAborts ==
    (Len(data) > 0 /\ pc = "p_crashed") => took = "raise"

\* a course line of the uncertified layout whose credits fraction is absent
\* (line 103)
Slashless(line) ==
    /\ IsCourseLine(line)
    /\ Contains(line, <<" ">>)
    /\ ~Contains(CleanedLine(line), <<"/">>)

\* C16: in the uncertified layout a course line without slash yields a
\* record with earned credits 0 and maximum credits 0, whatever the lines
\* before it were, also when it is the first course line.
C16_SlashlessZeroCredits ==
    (Iterated(FALSE) /\ TakenAsCourse /\ Slashless(CurrentLine) /\ exc # "ValueError")
        => /\ took = "record"
           /\ \E k \in 1..Len(grades) :
                 /\ grades[k][1] = SlashlessCourse(CleanedLine(CurrentLine))
                 /\ grades[k][2][2] = 0
                 /\ grades[k][2][3] = 0

\* C17: every record of the dict grades, in either layout, is a triple
\* (grade, creditsEarned, creditsMax).
C17_RecordsAreTriples == \A r \in Records : Len(r) = 3

\* C18: every record of the dict grades has a grade within 0..20 and, when
\* it carries both credits, earned credits not above the maximum credits.
C18_RecordsInRange ==
    \A r \in Records :
        /\ FloatWithin(r[1], 0, 20)
        /\ Len(r) = 3 => r[2] <= r[3]

\* the lines of n_data fetched before the current one, in MASTER 1 mode
MasterFetchedBefore == 8..(pos - 1)

\* C19 as stated: in MASTER 1 mode a line becomes a record only if it begins
\* with "UE" and is no SEMESTER header, and no line at or after the first
\* "Overall Result" line contributes a record.
C19_MasterRecordsOnlyFromUE ==
    (Iterated(TRUE) /\ master /\ took = "record")
        => /\ StartsWith(CurrentLine, <<"U", "E">>)
           /\ ~StartsWith(CurrentLine, <<"S", "E", "M", "E", "S", "T", "E", "R">>)
           /\ \A j \in 8..pos : ~StartsWith(data[j], <<"O", "v", "e", "r", "a", "l", "l", " ", "R", "e", "s", "u", "l", "t">>)

\* C19: in MASTER 1 mode a line becomes a record only if it does not start
\* with "SEMESTER" and holds "/20" after its first five characters, and the
\* loop stops at the first line starting with "Overall Result": no line
\* after it is fetched, and a line stored as a record has no such line at
\* or before it.
C19_MasterRecordsBeforeMarker ==
    (Iterated(TRUE) /\ master)
        => /\ \A j \in MasterFetchedBefore : ~StartsWith(data[j], <<"O", "v", "e", "r", "a", "l", "l", " ", "R", "e", "s", "u", "l", "t">>)
           /\ took = "record"
                => /\ ~StartsWith(CurrentLine, <<"O", "v", "e", "r", "a", "l", "l", " ", "R", "e", "s", "u", "l", "t">>)
                   /\ ~StartsWith(CurrentLine, <<"S", "E", "M", "E", "S", "T", "E", "R">>)
                   /\ Contains(SliceFrom(CurrentLine, 5), <<"/", "2", "0">>)

C19_Witness ==
    /\ Iterated(TRUE) /\ master /\ took = "stop"
    /\ pos < Len(data)
    /\ Contains(SliceFrom(data[pos + 1], 5), <<"/", "2", "0">>)
    /\ pc = "p_saved"

\* the line ends with one of the two status codes
EndsWithStatus(line) == EndsWith(line, <<"A", "J">>) \/ EndsWith(line, <<"A", "D", "M">>)

\* C20 as stated: in the uncertified layout a line is treated as a course
\* line if and only if it ends with AJ or ADM and holds none of the six
\* section keywords.
C20_CourseLineByStatus ==
    Iterated(FALSE)
        => (TakenAsCourse <=> (EndsWithStatus(CurrentLine) /\ ~HasHeaderKeyword(CurrentLine)))

\* C20: in the uncertified layout a line is treated as a course line if and
\* only if it starts with "UE" or ends with AJ or ADM, and holds none of the
\* six section keywords.
C20_CourseLineByPrefixOrStatus ==
    Iterated(FALSE)
        => (TakenAsCourse <=>
               /\ StartsWith(CurrentLine, <<"U", "E">>) \/ EndsWithStatus(CurrentLine)
               /\ ~HasHeaderKeyword(CurrentLine))

C20_Witness ==
    /\ Iterated(FALSE) /\ took = "record"
    /\ StartsWith(CurrentLine, <<"U", "E">>)
    /\ ~EndsWithStatus(CurrentLine)

\* what the loop body stores for a line when the dict is empty
Alone(line) ==
    IF certified
    THEN IF master THEN MasterLine(line, <<>>, gained_credits)
                   ELSE DefaultLine(line, <<>>, gained_credits)
    ELSE UncertifiedLine(line, <<>>, gained_credits)

\* the courses of a dict, in its order
Titles(g) == [k \in 1..Len(g) |-> g[k][1]]

\* C21: the dict grades keeps the courses in the order of the first line of
\* each title: a line with a new title is added at the end, a line with a
\* title already present replaces the record of that title in place (last
\* write wins), and a line that stores nothing leaves the dict as it is.
C21_OrderAndLastWrite ==
    [][(pc = "p_loop" /\ pos' = pos + 1)
          => IF took' = "record"
             THEN LET item == Alone(data[pos + 1]).grades[1]
                  IN  IF \E k \in 1..Len(grades) : grades[k][1] = item[1]
                      THEN /\ Titles(grades') = Titles(grades)
                           /\ \A k \in 1..Len(grades) :
                                 grades'[k] = IF grades[k][1] = item[1] THEN item
                                                                        ELSE grades[k]
                      ELSE grades' = Append(grades, item)
             ELSE grades' = grades]_vars

C21_Witness ==
    /\ pc = "p_saved" /\ took = "record"
    /\ pos = Len(data) /\ pos > 6
    /\ Len(grades) = 1
    /\ Alone(data[pos - 1]).took = "record"
    /\ Alone(data[pos - 1]).grades[1][1] = grades[1][1]
    /\ Alone(data[pos - 1]).grades[1][2] # grades[1][2]

\* C22: in every layout a grade token with letters in it, such as "16F", is
\* converted after the letters are removed: the line that holds it is
\* stored as a record with grade 16.0 and never raises.
C22_NoiseStripped ==
    (took # "none" /\ TakenAsCourse /\ Contains(CurrentLine, <<"1", "6", "F">>))
        => /\ took = "record"
           /\ \E r \in Records : r[1] = FloatOf(<<"1", "6">>).v

\* the grade token of a certified course line as the text between the
\* blank before the last "/20" and that "/20", read as a number
RightmostGrade(line) ==
    LET l == SliceFrom(line, 5)
        e == RFind(l, <<"/", "2", "0">>, 0, Len(l))
        s == RFind(l, <<" ">>, 0, e)
    IN  FloatOf(Replace(Strip(Slice(l, s, e)), <<",">>, <<".">>))

\* C23: in the certified layout the grade of a course line is the token
\* before the rightmost "/20" of the line, also when the title holds "/20":
\* a line whose token there is a number is stored with that grade.
C23_GradeAtRightmostMarker ==
    (Iterated(TRUE) /\ TakenAsCourse /\ RightmostGrade(CurrentLine).exc = "none")
        => /\ took = "record"
           /\ \E r \in Records : r[1] = RightmostGrade(CurrentLine).v

(***************************************************************************)
(* Properties of the conversion of a grade token, under SpecToken          *)
(***************************************************************************)
\* the float f is the decimal w: units + frac / 10^Len(frac)
IsWritten(f, w) ==
    f.num * (10 ^ Len(w.frac))
        = (w.units * (10 ^ Len(w.frac)) + DigitsValue(DigitsText(w.frac))) * (10 ^ f.exp)

HasDigit(text) == \E k \in 1..Len(text) : text[k] \in Digits

\* C24: a decimal of 0..20 written with a comma is recovered exactly by the
\* conversion of read_grades (comma replaced by a period, then float), and
\* a token with no digit left once its letters are removed gives the
\* conversion failure (ValueError), never a number.
C24_TokenRoundTrip ==
    /\ (applied # "none" /\ written.kind = "decimal")
          => (parsed.exc = "none" /\ IsWritten(parsed.v, written))
    /\ (applied = "uncertified" /\ ~HasDigit(token))
          => parsed.exc = "ValueError"

C24_Witness ==
    /\ applied = "uncertified"
    /\ written = [kind |-> "decimal", units |-> 12, frac |-> <<5>>]
    /\ token = <<"1", "2", ",", "5">>
    /\ parsed = [exc |-> "none", v |-> [num |-> 125, exp |-> 1]]

(***************************************************************************)
(* The absent grade in create_grades_table, under Spec                     *)
(***************************************************************************)
\* C29: create_grades_table accepts a course without grade (None): the call
\* returns, and the row of that course shows N/A as grade, letter and GPA.
C29_AbsentGradeAccepted ==
    (Called /\ \E i \in Courses : GradeOf(grades_data, i) = None)
        => /\ outcome = "returned"
           /\ \A i \in Courses :
                 GradeOf(grades_data, i) = None
                    => /\ table_data[i + 1][3] = "N/A"
                       /\ table_data[i + 1][4] = "N/A"
                       /\ table_data[i + 1][5] = "N/A"

(***************************************************************************)
(* Properties of the grade validator, under SpecValidate                   *)
(***************************************************************************)
\* the number of checks the record fails
ViolationCount(r) ==
    (IF r[1] # None /\ (r[1] < Pts(0) \/ r[1] > Pts(MaxGrade)) THEN 1 ELSE 0)
      + (IF r[2] < 0 \/ r[2] % 2 # 0 THEN 1 ELSE 0)
      + (IF r[3] < 0 \/ r[3] % 2 # 0 THEN 1 ELSE 0)
      + (IF r[2] > r[3] THEN 1 ELSE 0)

\* the number of errors reported for the course of that title
ErrorsOf(title) == Cardinality({k \in 1..Len(validation.errors) : validation.errors[k][1] = title})

\* C25: the validator answers valid exactly when every record has its grade,
\* if present, within 0..20, both credits non-negative integers and earned
\* credits not above the maximum; the errors hold one entry for every failed
\* check of every course; and the table is the same after the call.
C25_ValidatorCollectsAll ==
    pc = "v_done"
        => /\ validation.is_valid
                <=> \A i \in 1..Len(table_given) : ViolationCount(table_given[i][2]) = 0
           /\ \A i \in 1..Len(table_given) :
                 ErrorsOf(table_given[i][1]) = ViolationCount(table_given[i][2])
           /\ Len(validation.errors) = SumSeq([i \in 1..Len(table_given) |->
                                                  ViolationCount(table_given[i][2])])
           /\ table_after = table_given

C25_Witness ==
    /\ pc = "v_done"
    /\ Len(table_given) = 2
    /\ ~validation.is_valid
    /\ Len(validation.errors) >= 3
    /\ ErrorsOf(table_given[1][1]) >= 2
    /\ ErrorsOf(table_given[2][1]) >= 1

\* the students among the first n of the Excel file that have grades, pass
\* the validation and are processed without an exception
ValidAndProcessed(n) ==
    { i \in 1..n : /\ students[i].grades # <<>>
                   /\ validate_grades_data(students[i].grades).is_valid
                   /\ students[i].fault = "none" }

\* C26: in a batch a student without grades, with invalid grades or whose
\* processing raises gets no PDF and never stops the batch: the ZIP holds,
\* in the order of the Excel file, exactly one PDF per student that was valid
\* and processed without error, rendered from the student's own unmodified
\* grades, the batch returns only after every student was processed, and it
\* raises only when the Excel file itself cannot be read; a single generation
\* with invalid grades raises and returns no PDF.
C26_InvalidStudentsSkipped ==
    /\ pc \in {"b_loop", "b_ended", "h_done"} =>
          /\ Len(zip_file) = Cardinality(ValidAndProcessed(student_index))
          /\ \A k \in 1..Len(zip_file) :
                /\ zip_file[k].file \in ValidAndProcessed(student_index)
                /\ zip_file[k].pdf = students[zip_file[k].file].grades
                /\ \A j \in 1..(k - 1) : zip_file[j].file < zip_file[k].file
    /\ batch_result.kind = "returned" => student_index = Len(students)
    /\ batch_result.kind = "raised" => request.excel = "unreadable"
    /\ (pc = "s_done" /\ ~validate_grades_data(students[1].grades).is_valid) =>
          single_result.kind = "raised"

\* a batch of two students returned: the first has invalid grades and has no
\* PDF, the second was still processed and has the only PDF of the ZIP
C26_Witness ==
    /\ batch_result.kind = "returned"
    /\ Len(students) = 2
    /\ students[1].grades # <<>>
    /\ students[1].fault = "none"
    /\ ~validate_grades_data(students[1].grades).is_valid
    /\ Len(zip_file) = 1
    /\ zip_file[1].file = 2

\* C27: generate_batch_transcripts_from_data returns the four values
\* (zip_content, zip_filename, student_names, generated_count), and a POST
\* with a readable Excel file and a valid author YAML is answered by the one
\* success response of status 200.
C27_FourValuesAndSuccess ==
    /\ batch_result.kind = "returned" =>
          /\ Len(batch_result.values) = 4
          /\ batch_result.values[1] = zip_file
          /\ batch_result.values[3] = student_names
          /\ batch_result.values[4] = successful_count
    /\ (pc = "h_done" /\ PostChecks(request).go /\ request.excel = "workbook") =>
          responses = <<SuccessResponse>>

\* the checks of the request in the order of the claim, each with the message
\* of its refusal
RefusalChecks(req) ==
    << [failed |-> ~StartsWith(req.content_type, <<"m", "u", "l", "t", "i", "p", "a", "r", "t", "/", "f", "o", "r", "m", "-", "d", "a", "t", "a">>),
        message |-> "Content-Type must be multipart/form-data"],
       [failed |-> LET boundary == BoundaryOf(Split(req.content_type, <<";">>))
                   IN  boundary.kind = "None" \/ boundary.v = <<>>,
        message |-> "No boundary found in Content-Type"],
       [failed |-> req.content_length.kind = "None" \/ IntOf(req.content_length.v).v = 0,
        message |-> "No data received"],
       [failed |-> "students_excel" \notin req.fields,
        message |-> "Missing students_excel file"],
       [failed |-> "author_info" \notin req.fields,
        message |-> "Missing author_info file"],
       [failed |-> req.yaml # "author",
        message |-> "Invalid author info YAML"] >>

\* the Content-Length is present and is no integer
LengthUnreadable(req) ==
    req.content_length.kind # "None" /\ IntOf(req.content_length.v).exc # "none"

\* the first check that fails, 0 when none does; a Content-Length that is no
\* integer is a failure of another kind and ends the checks at the third
FirstRefusal(req) ==
    LET checks == RefusalChecks(req)
        upto == IF LengthUnreadable(req) THEN 2 ELSE Len(checks)
        failing == { k \in 1..upto : checks[k].failed }
    IN  IF failing = {} THEN 0 ELSE Smallest(failing)

\* C30: a handled POST has exactly one response and it carries the
\* Access-Control-Allow-Origin header; no state has more than one; the
\* response is the 400 of the first failing check, sent before any
\* generation started, a 500 for any other failure, and a 200 only after the
\* batch generation returned.
C30_OneResponse ==
    /\ Len(responses) <= 1
    /\ \A k \in 1..Len(responses) : responses[k].cors
    /\ pc = "h_done" =>
          /\ Len(responses) = 1
          /\ IF FirstRefusal(request) # 0
             THEN /\ responses[1].status = 400
                  /\ responses[1].message = RefusalChecks(request)[FirstRefusal(request)].message
                  /\ batch_result = NotEnded
                  /\ student_index = 0
                  /\ zip_file = <<>>
             ELSE responses[1].status \in {200, 500}
          /\ responses[1].status = 200 =>
                batch_result.kind = "returned" /\ student_index = Len(students)
          /\ (LengthUnreadable(request) /\ FirstRefusal(request) = 0) =>
                responses[1].status = 500 /\ batch_result = NotEnded

\* a POST with the Excel file and without the author file was answered by
\* the one 400 of the fifth check, with the header
C30_Witness ==
    /\ pc = "h_done"
    /\ FirstRefusal(request) = 5
    /\ request.yaml # "author"
    /\ Len(responses) = 1
    /\ responses[1].status = 400
    /\ responses[1].cors

\* C28: runs for different students share nothing: whatever the
\* interleaving, the file a run saved keeps the grades of that run, and the
\* grades a run loads are the grades it parsed, as when it runs alone.
C28_RunsIndependent ==
    \A k \in Runs :
       /\ (runs[k].pc = "saved" /\ \A j \in Runs \ {k} : runs[j].pc \in {"saved", "loaded"}) =>
             config_grades_json.grades = runs[k].grades
       /\ runs[k].pc = "loaded" => runs[k].loaded = runs[k].grades

=============================================================================
